---- MODULE Spec2Model ----
(***************************************************************************)
(* A model of the mcp-gateway discovery core.                              *)
(*                                                                         *)
(* Part 1 (specification Spec): the VectorDBClient of                      *)
(* pkg/gateway/embeddings/client.go: one client instance, its mutex, its   *)
(* MCP session, the docker process it owns, and NumProcs goroutines that   *)
(* call its methods concurrently.  Time is counted in seconds and advances *)
(* in steps of TickSeconds.                                                *)
(*                                                                         *)
(* Part 2 (specification SpecDisc): server discovery by embedding,         *)
(* Gateway.findServersByEmbedding, run hit by hit over a list of search    *)
(* hits and a catalog.                                                     *)
(*                                                                         *)
(* Part 3 (specification SpecFind): one request to find-servers or to      *)
(* find-tools, from the handler's parse of its parameters through the      *)
(* keyword search or the embedding search to the handler's response.       *)
(***************************************************************************)
EXTENDS Integers, Sequences, FiniteSets, TLC

\* ------------------------------------------------------------------ bounds

\* Number of goroutines calling the client concurrently.
NumProcs == 2

\* Seconds by which one Tick advances the clock.
TickSeconds == 10

\* Number of Close() calls the callers make on the client.
MaxCloses == 3

\* Longest list of hits the index answers a search with.
MaxHits == 3

\* Largest limit a caller passes to find-servers.
MaxLimit == 2

\* The owner of the registry and the catalog writes them at most this many
\* times while one request is served.
MaxWrites == 1

\* The index service is sent at most this many vectors.
MaxVectors == 3

\* The index service creates at most this many collections.
MaxCollections == 2

\* The dimensions passed to NewVectorDBClient range from -MaxDimension to
\* MaxDimension, besides the dimensions of embedding models.
MaxDimension == 50

\* ------------------------------------------------------- program constants

\* context.WithTimeout(ctx, 5*time.Second) in ListTools.
ListToolsTimeout == 5

\* context.WithTimeout(ctx, 30*time.Second) in CallTool.
CallToolTimeout == 30

\* params.Limit = 10 in keywordStrategy and embeddingStrategy; also the
\* default limit of a search.
DefaultLimit == 10

\* Limit: 5 in the search of findToolsByEmbedding.
ToolSearchLimit == 5

\* The vector dimension NewVectorDBClient uses when none is given.
DefaultDimension == 1536

Procs == 1..NumProcs

\* The clock of a call saturates here: "longer than every timeout".
MaxElapsed == CallToolTimeout + TickSeconds

Min(a, b) == IF a < b THEN a ELSE b

\* The methods of VectorDBClient a goroutine can call.  CreateCollection,
\* DeleteCollection, ListCollections, AddVector, DeleteVector and
\* SearchVectors all go through CallTool.
Ops == {"ListTools", "CallTool", "IsAlive", "Session", "Close"}

\* The methods that issue a request on the session.
SessionOps == {"ListTools", "CallTool"}

VARIABLES
    session,        \* c.session: "nil", or the session it points to: "open" / "closed"
    cmd,            \* c.cmd: "nil" or "set"
    containerName,  \* c.containerName: "" or "vector-db"
    mu,             \* c.mu: 0 when unlocked, else the goroutine holding it
    procState,      \* the docker run process: "none", "running", "exited"
    closeErr,       \* what the session's Close reported: "unset", "nil", "err"
    pc,             \* per goroutine: where it is in its call
    op,             \* per goroutine: the method it is calling, "none" outside a call
    cancelled,      \* per goroutine: the ctx it passed has been cancelled
    sessionErr,     \* Close's local sessionErr (one Close runs at a time)
    nClose,         \* number of Close calls entered
    closeRes,       \* history: what each Close call returned, in order of return
    teardown,       \* history: the teardown steps executed, over all Close calls
    last,           \* history: the last return, [op, r]
    sawTimeout,     \* history: some request has ended with a timeout error
    timed,          \* whether the clock is modelled (SpecTimed) or abstracted (Spec)
    elapsed,        \* per goroutine: seconds since the call was entered
    ctxAge,         \* per goroutine: seconds since the call's timeout ctx was made
    embeddingsClient, \* gateway: g.embeddingsClient, "nil" or "set"
    catalog,        \* gateway: the server names the catalog resolves
    toolRegistrations, \* gateway: g.toolRegistrations, by tool name
    hits,           \* index: the vectors nearest to the query, nearest first
    req,            \* request: the tool called and its Arguments
    handler,        \* request: the handler that serves it
    hpc,            \* request: where the handler is
    response,       \* request: what the handler returned, [err, list]
    fn,             \* discovery: the function running, findServersByEmbedding
                    \* or findToolsByEmbedding
    limit,          \* discovery: the limit parameter of findServersByEmbedding
    dpc,            \* discovery: where the function is
    derr,           \* discovery: the error returned, "nil" when none
    queryVector,    \* discovery: the local queryVector: "nil", "empty", "vector"
    results,        \* discovery: the local results
    hitIdx,         \* discovery: index in results of the next hit of the loop
    servers,        \* discovery: the local servers, the list being built
    tools,          \* discovery: the local tools, the list being built
    kept,           \* history: for each entry of the list, the index of its hit
    dropped,        \* history: indices of the hits dropped with a warning
    providerCalls,  \* history: number of requests sent to the embedding provider
    searches,       \* history: the SearchArgs of each search sent to the index
    encounter,      \* history: the order in which keywordStrategy met the servers
    ranked,         \* history: the matches keywordStrategy returned, with scores
    afterClose,     \* history, per goroutine: its call was entered after a
                    \* Close() on the connected client had returned
    writing,        \* gateway: the map its owner is writing: "registry",
                    \* "catalog", or "none" when no write is in progress
    nWrites,        \* history: number of writes the owner has begun
    vectorDimension, \* service: the VECTOR_DIMENSION it was started with, 0 before
    dimensionArg,   \* history: the dimension NewVectorDBClient was called with
    collections,    \* service: the collections table, name -> id
    vectors,        \* service: the vectors table, rows [id, collection_id, distance]
    nextId,         \* service: the AUTOINCREMENT counters, [collection, vector]
    found,          \* client: whether its last call was SearchVectors, and then
                    \* the arguments of the call and what it returned
    purged,         \* history: per deleted collection, the ids of the vectors it had
    wpc,            \* the goroutine calling Wait(): where it is in the call
    waitCalls,      \* history: number of times Wait() has called c.cmd.Wait()
    file,           \* secrets: the secrets file, [exists, lines]
    rpc,            \* secrets: where Remove is
    names,          \* secrets: Remove's names
    opts,           \* secrets: Remove's opts
    nameIdx,        \* secrets: index in names of the next name of Remove's loop
    errs,           \* secrets: Remove's errs
    removeErr,      \* secrets: the error Remove returned: "unset", "nil", "joined"
    given,          \* history: the names Remove was called with
    fileAtCall,     \* history: the secrets file when Remove was called
    deletions,      \* history: what each Delete of Remove's loop found and left
    fsOp,           \* secrets, per goroutine: its call of Set or Delete, [op, name, value]
    fsPc,           \* secrets, per goroutine: where it is in the call
    loaded,         \* secrets, per goroutine: the local map secrets of the call
    fsErr,          \* secrets, per goroutine: the error the call returned
    config,         \* gateway: g.configuration.config, by canonical server name
    persisted,      \* gateway: the configuration as last persisted
    configReq,      \* config-set: the Arguments of the last call
    configRes       \* config-set: what the last call returned

clientVars == <<session, cmd, containerName, mu, procState, closeErr, pc, op,
                cancelled, sessionErr, nClose, closeRes, teardown, last,
                sawTimeout, timed, elapsed, ctxAge>>

serviceVars == <<vectorDimension, dimensionArg, collections, vectors, nextId,
                 found, purged>>

gatewayVars == <<embeddingsClient, catalog, toolRegistrations, hits, writing,
                 nWrites, serviceVars>>

callVars == <<req, handler, hpc, response>>

fnVars == <<fn, limit, dpc, derr, queryVector, results, hitIdx, servers, tools,
            kept, dropped>>

histVars == <<providerCalls, searches, encounter, ranked, afterClose>>

discVars == <<gatewayVars, callVars, fnVars, histVars>>

waitVars == <<wpc, waitCalls>>

\* What lies beside the client's calls and the discovery request.
removeVars == <<rpc, names, opts, nameIdx, errs, removeErr, given, fileAtCall,
                deletions>>

storeVars == <<fsOp, fsPc, loaded, fsErr>>

secretVars == <<file, removeVars, storeVars>>

configVars == <<config, persisted, configReq, configRes>>

sideVars == <<waitVars, secretVars, configVars>>

vars == <<clientVars, discVars, sideVars>>

\* ------------------------------------------------------------- the client

\* A VectorDBClient before NewVectorDBClient has filled it in.
ClientInit ==
    /\ session = "nil"
    /\ cmd = "nil"
    /\ containerName = ""
    /\ mu = 0
    /\ procState = "none"
    /\ closeErr = "unset"
    /\ pc = [p \in Procs |-> "idle"]
    /\ op = [p \in Procs |-> "none"]
    /\ cancelled = [p \in Procs |-> FALSE]
    /\ sessionErr = "nil"
    /\ nClose = 0
    /\ closeRes = <<>>
    /\ teardown = <<>>
    /\ last = [op |-> "none", r |-> "none"]
    /\ sawTimeout = FALSE
    /\ elapsed = [p \in Procs |-> 0]
    /\ ctxAge = [p \in Procs |-> 0]
    /\ afterClose = [p \in Procs |-> FALSE]

\* No goroutine is in Wait().
WaitIdle == wpc = "idle" /\ waitCalls = 0

\* No call of Remove has been made.
RemoveIdle ==
    /\ rpc = "idle"
    /\ names = <<>>
    /\ opts = [All |-> FALSE]
    /\ nameIdx = 1
    /\ errs = <<>>
    /\ removeErr = "unset"
    /\ given = <<>>
    /\ fileAtCall = [exists |-> FALSE, lines |-> <<>>]
    /\ deletions = <<>>

\* No goroutine has called Set or Delete.
StoreIdle ==
    /\ fsOp = [p \in Procs |-> [op |-> "none", name |-> <<>>, value |-> <<>>]]
    /\ fsPc = [p \in Procs |-> "idle"]
    /\ loaded = [p \in Procs |-> <<>>]
    /\ fsErr = [p \in Procs |-> "unset"]

\* There is no secrets file and no secret operation under way.
SecretsIdle ==
    /\ file = [exists |-> FALSE, lines |-> <<>>]
    /\ RemoveIdle
    /\ StoreIdle

\* No server has a config and config-set has not been called.
ConfigIdle ==
    /\ config = <<>>
    /\ persisted = <<>>
    /\ configReq = [nil |-> TRUE, Server |-> <<>>, Config |-> [nil |-> TRUE, value |-> <<>>]]
    /\ configRes = "none"

\* Nothing beside the client and the gateway has happened yet.
SideIdle == WaitIdle /\ SecretsIdle /\ ConfigIdle

\* The index service before it is started: no schema, no rows.
ServiceIdle ==
    /\ vectorDimension = 0
    /\ dimensionArg = 0
    /\ collections = [n \in {} |-> 0]
    /\ vectors = {}
    /\ nextId = [collection |-> 1, vector |-> 1]
    /\ found = [searched |-> FALSE, answer |-> <<>>,
                args |-> [CollectionName |-> "", ExcludeCollections |-> {}, Limit |-> 0],
                results |-> <<>>]
    /\ purged = [n \in {} |-> {}]

\* No discovery call is running.
DiscIdle ==
    /\ writing = "none"
    /\ nWrites = 0
    /\ ServiceIdle
    /\ embeddingsClient = "nil"
    /\ catalog = {}
    /\ toolRegistrations = [n \in {} |-> 0]
    /\ hits = <<>>
    /\ req = [name |-> "none", arguments |-> [nil |-> TRUE, prompt |-> <<>>, limit |-> 0]]
    /\ handler = "none"
    /\ hpc = "idle"
    /\ response = [err |-> "nil", list |-> <<>>]
    /\ fn = "none"
    /\ limit = 0
    /\ dpc = "idle"
    /\ derr = "nil"
    /\ queryVector = "nil"
    /\ results = <<>>
    /\ hitIdx = 1
    /\ servers = <<>>
    /\ tools = <<>>
    /\ kept = <<>>
    /\ dropped = {}
    /\ providerCalls = 0
    /\ searches = <<>>
    /\ encounter = <<>>
    /\ ranked = <<>>

Init == ClientInit /\ timed = FALSE /\ DiscIdle /\ SideIdle

InitTimed == ClientInit /\ timed = TRUE /\ DiscIdle /\ SideIdle

\* NewVectorDBClient returning a client: the command is started and the
\* session is connected (a failed Connect returns no client at all).
\* A client that passes the dimension it is given, except that it replaces
\* a negative one.
NormalizeDimensionNegative(dimension) ==
    IF dimension < 0 THEN DefaultDimension ELSE dimension

\* if dimension <= 0 { dimension = 1536 }
NormalizeDimension(dimension) ==
    IF dimension <= 0 THEN DefaultDimension ELSE dimension

\* NewVectorDBClient(ctx, dataDir, dimension, logFunc) returning a client:
\* the container is started with VECTOR_DIMENSION set to the normalized
\* dimension and the session is connected.
Connect(dimension) ==
    /\ session = "nil" /\ cmd = "nil" /\ containerName = ""
    /\ \A p \in Procs : pc[p] = "idle"
    /\ nClose = 0
    /\ session' = "open"
    /\ cmd' = "set"
    /\ containerName' = "vector-db"
    /\ procState' = "running"
    /\ dimensionArg' = dimension
    /\ vectorDimension' = NormalizeDimension(dimension)
    /\ UNCHANGED <<mu, closeErr, pc, op, cancelled, sessionErr, nClose, closeRes,
                   teardown, last, sawTimeout, timed, elapsed, ctxAge>>
    /\ UNCHANGED <<collections, vectors, nextId, found, purged>>
    /\ UNCHANGED <<embeddingsClient, catalog, toolRegistrations, hits, writing,
                   nWrites, callVars, fnVars, histVars, sideVars>>

\* The gateway's client: created with the dimension left unspecified.
NewVectorDBClient == Connect(0)

\* A goroutine enters a method: the first thing every method does is
\* c.mu.Lock(), which it now waits for.  later is what the history keeps of
\* the moment of the call.
Entered(p, o, later) ==
    /\ pc[p] = "idle"
    /\ o = "Close" => nClose < MaxCloses
    /\ pc' = [pc EXCEPT ![p] = "lock"]
    /\ op' = [op EXCEPT ![p] = o]
    /\ nClose' = IF o = "Close" THEN nClose + 1 ELSE nClose
    /\ afterClose' = [afterClose EXCEPT ![p] = later]
    /\ UNCHANGED <<session, cmd, containerName, mu, procState, closeErr,
                   cancelled, sessionErr, closeRes, teardown, last, sawTimeout,
                   timed, elapsed, ctxAge>>
    /\ UNCHANGED <<gatewayVars, callVars, fnVars, sideVars>>
    /\ UNCHANGED <<providerCalls, searches, encounter, ranked>>

\* A goroutine enters a method, with no history kept of the moment.
Enter(p, o) == Entered(p, o, FALSE)

\* A goroutine enters a method, and the history keeps whether the method uses
\* the session and is called after a Close() on the connected client returned.
EnterLater(p, o) ==
    Entered(p, o, o \in SessionOps /\ session # "nil" /\ Len(closeRes) >= 1)

\* c.mu.Lock() returning as a bug would have it: without waiting for the holder.
LockFreeBroken == TRUE

\* c.mu.Lock() can return only when no goroutine holds the mutex.
LockFree == mu = 0

\* c.mu.Lock() returns.
Lock(p) ==
    /\ pc[p] = "lock"
    /\ LockFree
    /\ mu' = p
    /\ pc' = [pc EXCEPT ![p] = "locked"]
    /\ UNCHANGED <<session, cmd, containerName, procState, closeErr, op,
                   cancelled, sessionErr, nClose, closeRes, teardown, last,
                   sawTimeout, timed, elapsed, ctxAge>>
    /\ UNCHANGED <<discVars, sideVars>>

\* The timeout a method gives its request.
Timeout(o) == IF o = "ListTools" THEN ListToolsTimeout ELSE CallToolTimeout

\* The mutex after a method returns when its deferred Unlock is missing.
UnlockedMissing(p) == mu

\* defer c.mu.Unlock(): the mutex after the method of p returns.
Unlocked(p) == IF mu = p THEN 0 ELSE mu

\* The method of p returns r: its deferred calls run and the goroutine is
\* outside the client again.
\* The call of goroutine p is over: what the histories keep of it.
Leave(p) ==
    /\ afterClose' = [afterClose EXCEPT ![p] = FALSE]
    /\ UNCHANGED <<gatewayVars, callVars, fnVars, sideVars>>
    /\ UNCHANGED <<providerCalls, searches, encounter, ranked>>

Return(p, r) ==
    /\ pc' = [pc EXCEPT ![p] = "idle"]
    /\ op' = [op EXCEPT ![p] = "none"]
    /\ cancelled' = [cancelled EXCEPT ![p] = FALSE]
    /\ elapsed' = [elapsed EXCEPT ![p] = 0]
    /\ ctxAge' = [ctxAge EXCEPT ![p] = 0]
    /\ last' = [op |-> op[p], r |-> r]
    /\ mu' = Unlocked(p)

\* The nil check of ListTools / CallTool left out.
HasSessionUnchecked == TRUE

\* if c.session == nil { return nil, fmt.Errorf("session not initialized") }
HasSession == session # "nil"

\* ListTools / CallTool with the lock held: no session, no request.
NotInitialized(p) ==
    /\ pc[p] = "locked"
    /\ op[p] \in SessionOps
    /\ ~HasSession
    /\ Return(p, "not_initialized")
    /\ UNCHANGED <<session, cmd, containerName, procState, closeErr, sessionErr,
                   nClose, closeRes, teardown, sawTimeout, timed>>
    /\ Leave(p)

\* ListTools / CallTool with the lock held and a session: make the timeout
\* ctx and send the request on the session.
SendRequest(p) ==
    /\ pc[p] = "locked"
    /\ op[p] \in SessionOps
    /\ HasSession
    /\ pc' = [pc EXCEPT ![p] = "inflight"]
    /\ ctxAge' = [ctxAge EXCEPT ![p] = 0]
    /\ UNCHANGED <<session, cmd, containerName, mu, procState, closeErr, op,
                   cancelled, sessionErr, nClose, closeRes, teardown, last,
                   sawTimeout, timed, elapsed>>
    /\ UNCHANGED <<discVars, sideVars>>

\* The timeout of the request of p has run out.  Without the clock it may
\* have run out at any moment.
DeadlinePassed(p) == IF timed THEN ctxAge[p] >= Timeout(op[p]) ELSE TRUE

\* The timeout of the request of p cannot have run out yet.
BeforeDeadline(p) == IF timed THEN ctxAge[p] < Timeout(op[p]) ELSE TRUE

\* A timeout ctx made from context.Background(): the caller's cancellation is lost.
AnswersDetached(p) ==
    (IF DeadlinePassed(p) THEN {"timeout"} ELSE {})
    \cup (IF ~BeforeDeadline(p) THEN {}
          ELSE IF session = "open" /\ procState = "running" THEN {"ok", "err"}
          ELSE {"err"})

\* What c.session.ListTools / c.session.CallTool can return to p now, under
\* ctx, cancel := context.WithTimeout(ctx, ...): the ctx error once the caller
\* has cancelled or the timeout has run out, else a result or an error.
Answers(p) ==
    IF cancelled[p] THEN {"cancelled"}
    ELSE (IF DeadlinePassed(p) THEN {"timeout"} ELSE {})
         \cup (IF ~BeforeDeadline(p) THEN {}
               ELSE IF session = "open" /\ procState = "running" THEN {"ok", "err"}
               ELSE {"err"})

\* A client that gives up its session when a request times out.
AfterAnswerFatal(r) == IF r = "timeout" THEN "closed" ELSE session

\* c.session after a request returned r: the client leaves it alone.
AfterAnswer(r) == session

\* The request of p returns; the method returns its result or the wrapped error.
Answer(p) ==
    /\ pc[p] = "inflight"
    /\ \E r \in Answers(p) :
        /\ Return(p, r)
        /\ session' = AfterAnswer(r)
        /\ sawTimeout' = (sawTimeout \/ r = "timeout")
    /\ UNCHANGED <<cmd, containerName, procState, closeErr, sessionErr, nClose,
                   closeRes, teardown, timed>>
    /\ Leave(p)

\* The caller cancels the ctx it passed to ListTools / CallTool.
Cancel(p) ==
    /\ pc[p] \in {"lock", "locked", "inflight"}
    /\ op[p] \in SessionOps
    /\ ~cancelled[p]
    /\ cancelled' = [cancelled EXCEPT ![p] = TRUE]
    /\ UNCHANGED <<session, cmd, containerName, mu, procState, closeErr, pc, op,
                   sessionErr, nClose, closeRes, teardown, last, sawTimeout,
                   timed, elapsed, ctxAge>>
    /\ UNCHANGED <<discVars, sideVars>>

\* c.cmd.Process.Signal(nil): an error when the process is gone, and possibly
\* otherwise too (the signal value is not one the platform knows).
SignalOk == IF procState = "running" THEN {TRUE, FALSE} ELSE {FALSE}

\* IsAlive with the lock held.
IsAlive(p) ==
    /\ pc[p] = "locked"
    /\ op[p] = "IsAlive"
    /\ \E alive \in (IF cmd = "nil" THEN {FALSE} ELSE SignalOk) :
        Return(p, IF alive THEN "true" ELSE "false")
    /\ UNCHANGED <<session, cmd, containerName, procState, closeErr, sessionErr,
                   nClose, closeRes, teardown, sawTimeout, timed>>
    /\ Leave(p)

\* Session with the lock held: returns c.session.
Session(p) ==
    /\ pc[p] = "locked"
    /\ op[p] = "Session"
    /\ Return(p, session)
    /\ UNCHANGED <<session, cmd, containerName, procState, closeErr, sessionErr,
                   nClose, closeRes, teardown, sawTimeout, timed>>
    /\ Leave(p)

\* The Close call now running is the k-th to run.
CloseCall == Len(closeRes) + 1

\* One teardown step of the running Close call; logged: the step failed and
\* its error went to the log.
Step(s, logged) == [call |-> CloseCall, step |-> s, logged |-> logged]

\* Close, first step: if c.session != nil { sessionErr = c.session.Close() }.
\* Closing the session closes the process's stdin and reports how the
\* connection ended; closing it again reports the same.  c.session is left
\* pointing at the closed session.
CloseSession(p) ==
    /\ pc[p] = "locked"
    /\ op[p] = "Close"
    /\ IF session # "nil"
       THEN /\ \E e \in (IF closeErr = "unset" THEN {"nil", "err"} ELSE {closeErr}) :
                /\ closeErr' = e
                /\ sessionErr' = e
                /\ teardown' = Append(teardown, Step("session", FALSE))
            /\ session' = "closed"
            /\ procState' \in (IF procState = "running" THEN {"running", "exited"} ELSE {procState})
       ELSE /\ sessionErr' = "nil"
            /\ UNCHANGED <<closeErr, session, procState, teardown>>
    /\ pc' = [pc EXCEPT ![p] = "close_stop"]
    /\ UNCHANGED <<cmd, containerName, mu, op, cancelled, nClose, closeRes, last,
                   sawTimeout, timed, elapsed, ctxAge>>
    /\ UNCHANGED <<discVars, sideVars>>

\* Close, second step: docker stop -t 2 <containerName>; when it fails the
\* error is logged and the container may still run; then c.containerName = "".
CloseStop(p) ==
    /\ pc[p] = "close_stop"
    /\ IF containerName # ""
       THEN /\ \E e \in {"nil", "err"} :
                /\ teardown' = Append(teardown, Step("stop", e = "err"))
                /\ procState' \in (IF procState = "running" /\ e = "err"
                                   THEN {"running", "exited"}
                                   ELSE IF procState = "running" THEN {"exited"}
                                   ELSE {procState})
            /\ containerName' = ""
       ELSE UNCHANGED <<procState, containerName, teardown>>
    /\ pc' = [pc EXCEPT ![p] = "close_wait"]
    /\ UNCHANGED <<session, cmd, mu, closeErr, op, cancelled, sessionErr, nClose,
                   closeRes, last, sawTimeout, timed, elapsed, ctxAge>>
    /\ UNCHANGED <<discVars, sideVars>>

\* Close that returns without waiting for the process.
WaitReturnsEarly == TRUE

\* c.cmd.Wait() returns once the process has exited.
WaitReturns == procState # "running"

\* Close that hands the error of c.cmd.Wait() to its caller.
CloseResultPropagating(sErr, wErr) == IF sErr # "nil" THEN sErr ELSE wErr

\* return sessionErr: the error of c.cmd.Wait() was only logged.
CloseResult(sErr, wErr) == sErr

\* Close, last steps: c.cmd.Wait() (its error only logged), c.cmd = nil,
\* return sessionErr.
CloseWait(p) ==
    /\ pc[p] = "close_wait"
    /\ IF cmd # "nil"
       THEN /\ WaitReturns
            /\ \E wErr \in {"nil", "wait_err"} :
                /\ teardown' = Append(Append(teardown, Step("wait", wErr # "nil")),
                                      Step("release", FALSE))
                /\ Return(p, CloseResult(sessionErr, wErr))
                /\ closeRes' = Append(closeRes, CloseResult(sessionErr, wErr))
            /\ cmd' = "nil"
       ELSE /\ Return(p, CloseResult(sessionErr, "nil"))
            /\ closeRes' = Append(closeRes, CloseResult(sessionErr, "nil"))
            /\ UNCHANGED <<cmd, teardown>>
    /\ UNCHANGED <<session, containerName, procState, closeErr, sessionErr,
                   nClose, sawTimeout, timed>>
    /\ Leave(p)

\* The docker run process exits by itself.
ProcessExit ==
    /\ procState = "running"
    /\ procState' = "exited"
    /\ UNCHANGED <<session, cmd, containerName, mu, closeErr, pc, op, cancelled,
                   sessionErr, nClose, closeRes, teardown, last, sawTimeout,
                   timed, elapsed, ctxAge>>
    /\ UNCHANGED <<discVars, sideVars>>

\* The goroutine is waiting for something that takes time: the mutex held by
\* another goroutine, the answer to its request, docker stop, the process's exit.
Blocked(p) ==
    \/ pc[p] = "lock" /\ mu # 0
    \/ pc[p] = "inflight" /\ ~cancelled[p] /\ ctxAge[p] < Timeout(op[p])
    \/ pc[p] \in {"close_stop", "close_wait"}

\* TickSeconds pass: no goroutine can take a step at once (each is outside
\* the client or blocked), and the clocks of the calls under way advance.
Tick ==
    /\ timed
    /\ \E p \in Procs : pc[p] # "idle"
    /\ \A p \in Procs : pc[p] = "idle" \/ Blocked(p)
    /\ elapsed' = [p \in Procs |->
                     IF pc[p] # "idle" THEN Min(elapsed[p] + TickSeconds, MaxElapsed)
                     ELSE elapsed[p]]
    /\ ctxAge' = [p \in Procs |->
                     IF pc[p] = "inflight" THEN Min(ctxAge[p] + TickSeconds, MaxElapsed)
                     ELSE ctxAge[p]]
    /\ UNCHANGED <<session, cmd, containerName, mu, procState, closeErr, pc, op,
                   cancelled, sessionErr, nClose, closeRes, teardown, last,
                   sawTimeout, timed>>
    /\ UNCHANGED <<discVars, sideVars>>

Next ==
    \/ NewVectorDBClient
    \/ \E p \in Procs, o \in Ops : Enter(p, o)
    \/ \E p \in Procs : Lock(p)
    \/ \E p \in Procs : NotInitialized(p)
    \/ \E p \in Procs : SendRequest(p)
    \/ \E p \in Procs : Answer(p)
    \/ \E p \in Procs : Cancel(p)
    \/ \E p \in Procs : IsAlive(p)
    \/ \E p \in Procs : Session(p)
    \/ \E p \in Procs : CloseSession(p)
    \/ \E p \in Procs : CloseStop(p)
    \/ \E p \in Procs : CloseWait(p)
    \/ ProcessExit

Spec == Init /\ [][Next]_vars

NextLater ==
    \/ NewVectorDBClient
    \/ \E p \in Procs, o \in Ops : EnterLater(p, o)
    \/ \E p \in Procs : Lock(p)
    \/ \E p \in Procs : NotInitialized(p)
    \/ \E p \in Procs : SendRequest(p)
    \/ \E p \in Procs : Answer(p)
    \/ \E p \in Procs : Cancel(p)
    \/ \E p \in Procs : IsAlive(p)
    \/ \E p \in Procs : Session(p)
    \/ \E p \in Procs : CloseSession(p)
    \/ \E p \in Procs : CloseStop(p)
    \/ \E p \in Procs : CloseWait(p)
    \/ ProcessExit

\* The client, with the history of which calls were made after a Close().
SpecLater == Init /\ [][NextLater]_vars

NextTimed == Next \/ Tick

SpecTimed == InitTimed /\ [][NextTimed]_vars

\* ---------------------------------------------------- strings and keywords

\* strings.ToLower on one character of the texts of the model.
Lower(c) == IF c = "G" THEN "g" ELSE IF c = "H" THEN "h" ELSE c

\* strings.ToLower: a string is the sequence of its characters.
ToLower(s) == [i \in 1..Len(s) |-> Lower(s[i])]

RECURSIVE TrimLeft(_)
\* s without its leading white space.
TrimLeft(s) == IF s # <<>> /\ Head(s) = " " THEN TrimLeft(Tail(s)) ELSE s

RECURSIVE TrimRight(_)
\* s without its trailing white space.
TrimRight(s) ==
    IF s # <<>> /\ s[Len(s)] = " " THEN TrimRight(SubSeq(s, 1, Len(s) - 1)) ELSE s

\* strings.TrimSpace
TrimSpace(s) == TrimRight(TrimLeft(s))

\* strings.Contains: substr occurs in s; the empty string occurs in every s.
Contains(s, substr) ==
    \E i \in 0..(Len(s) - Len(substr)) : SubSeq(s, i + 1, i + Len(substr)) = substr

\* A helper that adds where the code takes the larger.
maxIntSum(a, b) == a + b

\* maxInt(a, b)
maxInt(a, b) == IF a > b THEN a ELSE b

\* The server names that occur in hit metadata and in catalogs.
ServerNames == {"github", "gitlab", "weather"}

\* The characters of a server name.
NameText(serverName) ==
    CASE serverName = "github" -> <<"g", "h">>
      [] serverName = "gitlab" -> <<"g", "l">>
      [] serverName = "weather" -> <<"w">>

\* A catalog.Tool of a server: the two fields the keyword search reads.
Tool(name, description) == [Name |-> name, Description |-> description]

\* A secret of a server: only its Name is read.
Secret(name) == [Name |-> name]

\* The catalog.Server behind each server name: the fields the keyword search
\* and the formatting of a match read.  An empty sequence is the empty
\* string or the nil slice, the zero value of an unset field.  An item of
\* Config is a schema object: its name and the key it requires of a value.
ServerOf(serverName) ==
    CASE serverName = "github" ->
            [Title |-> <<"G", "H">>, Description |-> <<"g", "h", " ", "a">>,
             Tools |-> <<>>, Image |-> <<"i", "g", "h">>,
             Secrets |-> <<Secret("github.token")>>, Config |-> <<>>,
             LongLived |-> FALSE]
      [] serverName = "gitlab" ->
            [Title |-> <<"a", "t">>, Description |-> <<>>,
             Tools |-> <<Tool(<<"x", "l">>, <<"d">>)>>, Image |-> <<>>,
             Secrets |-> <<>>,
             Config |-> <<[name |-> "gitlab", required |-> "url"],
                          [name |-> "", required |-> "none"]>>,
             LongLived |-> TRUE]
      [] serverName = "weather" ->
            [Title |-> <<"G">>, Description |-> <<"f", " ", "l">>,
             Tools |-> <<Tool(<<"l">>, <<"w">>)>>, Image |-> <<>>,
             Secrets |-> <<>>, Config |-> <<>>,
             LongLived |-> FALSE]

\* A map[string]any with the given keys, out of the values a serverInfo can
\* hold.
InfoMap(keys, name, server) ==
    [k \in keys |->
        CASE k = "name" -> name
          [] k = "description" -> server.Description
          [] k = "required_secrets" ->
                [i \in 1..Len(server.Secrets) |-> server.Secrets[i].Name]
          [] k = "config_schema" -> server.Config
          [] k = "long_lived" -> server.LongLived]

\* A formatting that gives every match a description, empty or not.
MatchInfoAllFields(match) ==
    InfoMap({"name", "description", "long_lived"}
                \cup (IF Len(ServerOf(match.Name).Secrets) > 0
                      THEN {"required_secrets"} ELSE {})
                \cup (IF Len(ServerOf(match.Name).Config) > 0
                      THEN {"config_schema"} ELSE {}),
            match.Name, ServerOf(match.Name))

\* The serverInfo keywordStrategy builds for a match, from match.Name and
\* match.Server.
MatchInfo(match) ==
    InfoMap({"name"}
                \cup (IF ServerOf(match.Name).Description # <<>>
                      THEN {"description"} ELSE {})
                \cup (IF Len(ServerOf(match.Name).Secrets) > 0
                      THEN {"required_secrets"} ELSE {})
                \cup (IF Len(ServerOf(match.Name).Config) > 0
                      THEN {"config_schema"} ELSE {})
                \cup {"long_lived"},
            match.Name, ServerOf(match.Name))

\* The prompts a caller sends; the empty sequence is the empty prompt and
\* also what a missing "prompt" key decodes to.
Prompts ==
    {<<>>, <<" ">>, <<"g">>, <<" ", "G", "H">>, <<"l">>, <<"a">>, <<"t">>,
     <<"f", " ", "l">>, <<"x", "l">>, <<"x">>, <<"d">>, <<"i">>, <<"w">>, <<"z">>}

\* The limits a caller sends; 0 is also what a missing "limit" key decodes to.
Limits == (0 - 1)..MaxLimit

\* match and score of the loop body, as the loop body keeps them.
MS(match, score) == [match |-> match, score |-> score]

\* Check server name (exact match gets higher score).
CheckName(serverName, query) ==
    LET serverNameLower == ToLower(NameText(serverName))
    IN  IF serverNameLower = query THEN MS(TRUE, 100)
        ELSE IF Contains(serverNameLower, query) THEN MS(TRUE, 50)
        ELSE MS(FALSE, 0)

\* Check server title.
CheckTitle(ms, server, query) ==
    IF server.Title # <<>>
    THEN LET titleLower == ToLower(server.Title)
         IN  IF titleLower = query THEN MS(TRUE, maxInt(ms.score, 97))
             ELSE IF Contains(titleLower, query) THEN MS(TRUE, maxInt(ms.score, 47))
             ELSE ms
    ELSE ms

\* Check server description.
CheckDescription(ms, server, query) ==
    IF server.Description # <<>>
    THEN LET descriptionLower == ToLower(server.Description)
         IN  IF descriptionLower = query THEN MS(TRUE, maxInt(ms.score, 95))
             ELSE IF Contains(descriptionLower, query) THEN MS(TRUE, maxInt(ms.score, 45))
             ELSE ms
    ELSE ms

\* The body of the loop over server.Tools, for one tool.
CheckTool(ms, tool, query) ==
    LET toolNameLower == ToLower(tool.Name)
        toolDescLower == ToLower(tool.Description)
    IN  IF toolNameLower = query THEN MS(TRUE, maxInt(ms.score, 90))
        ELSE IF Contains(toolNameLower, query) THEN MS(TRUE, maxInt(ms.score, 40))
        ELSE IF Contains(toolDescLower, query) THEN MS(TRUE, maxInt(ms.score, 30))
        ELSE ms

RECURSIVE CheckTools(_, _, _)
\* for _, tool := range server.Tools
CheckTools(ms, toolList, query) ==
    IF toolList = <<>> THEN ms
    ELSE CheckTools(CheckTool(ms, Head(toolList), query), Tail(toolList), query)

\* Check image name.
CheckImage(ms, server, query) ==
    IF server.Image # <<>> /\ Contains(ToLower(server.Image), query)
    THEN MS(TRUE, maxInt(ms.score, 20))
    ELSE ms

\* The body of the loop over configuration.servers down to "if match".
ScoreServer(serverName, server, query) ==
    CheckImage(
        CheckTools(
            CheckDescription(
                CheckTitle(CheckName(serverName, query), server, query),
                server, query),
            server.Tools, query),
        server, query)

\* A ServerMatch.
ServerMatch(name, score) == [Name |-> name, Score |-> score]

\* The matches appended while ranging over configuration.servers in the
\* order the map iteration yields its keys.
CollectMatches(order, srvs, query) ==
    LET scored == [i \in 1..Len(order) |-> ScoreServer(order[i], srvs[order[i]], query)]
        idx == SelectSeq([i \in 1..Len(order) |-> i], LAMBDA i : scored[i].match)
    IN  [k \in 1..Len(idx) |-> ServerMatch(order[idx[k]], scored[idx[k]].score)]

\* matches[i], matches[j] = matches[j], matches[i]
Swap(matches, i, j) == [matches EXCEPT ![i] = matches[j], ![j] = matches[i]]

RECURSIVE SortInner(_, _, _)
\* for j := i + 1; j < len(matches); j++ (positions counted from 1 here)
SortInner(matches, i, j) ==
    IF j > Len(matches) THEN matches
    ELSE SortInner(IF matches[i].Score < matches[j].Score
                   THEN Swap(matches, i, j) ELSE matches, i, j + 1)

RECURSIVE SortOuter(_, _)
\* for i := range len(matches) - 1
SortOuter(matches, i) ==
    IF i > Len(matches) - 1 THEN matches
    ELSE SortOuter(SortInner(matches, i, i + 1), i + 1)

\* Sort matches by score (higher scores first).
SortMatches(matches) == SortOuter(matches, 1)

\* A handler that returns every match.
TruncateNever(matches, lim) == matches

\* Limit results: matches[:params.Limit]
Truncate(matches, lim) ==
    IF Len(matches) > lim THEN SubSeq(matches, 1, lim) ELSE matches

\* if params.Limit <= 0 { params.Limit = 10 }
NormalizeLimit(lim) == IF lim <= 0 THEN DefaultLimit ELSE lim

\* The orders in which a range over a map with key set S can yield its keys.
IterationOrders(S) ==
    {o \in [1..Cardinality(S) -> S] : \A i, j \in 1..Cardinality(S) : o[i] = o[j] => i = j}

\* ------------------------------------------------------------ the index

\* The collection that holds one vector per catalog server.
ServerCollection == "mcp-server-collection"

\* A collection that holds one vector per tool of a server.
ToolCollection == "github"

\* A metadata value as decoded from JSON: its dynamic type and its text.
Str(v) == [t |-> "string", v |-> v]

Num(v) == [t |-> "number", v |-> v]

\* A metadata value that is a JSON object: map[string]any.
Obj(m) == [t |-> "map", m |-> m]

\* The metadata maps a hit of server discovery can carry: without "name",
\* with a "name" that is not a string, with a "name" that is a string.
Metas ==
    {[k \in {} |-> Num("0")], [k \in {"name"} |-> Num("42")]}
    \cup {[k \in {"name"} |-> Str(n)] : n \in ServerNames}

\* The tool names that occur in hit metadata and in the registry.
ToolNames == {"search", "fetch"}

\* The metadata maps a hit of tool discovery can carry: without "tool", with
\* a "tool" that is a number, a string (empty or not), or an object without
\* "name", with a "name" that is no string, with a "name" that is a string.
ToolMetas ==
    {[k \in {} |-> Num("0")], [k \in {"tool"} |-> Num("42")],
     [k \in {"tool"} |-> Str("")],
     [k \in {"tool"} |-> Obj([j \in {} |-> Num("0")])],
     [k \in {"tool"} |-> Obj([j \in {"name"} |-> Num("42")])]}
    \cup {[k \in {"tool"} |-> Str(n)] : n \in ToolNames}
    \cup {[k \in {"tool"} |-> Obj([j \in {"name"} |-> Str(n)])] : n \in {"search"}}

\* A vector of the index: its collection and its metadata.
Entry(collection, metadata) == [collection |-> collection, metadata |-> metadata]

\* The vectors a search of server discovery can meet.
ServerEntries ==
    {Entry(ServerCollection, m) : m \in Metas}
    \cup {Entry(ToolCollection, [k \in {"name"} |-> Str("github")])}

\* The vectors a search of tool discovery can meet.
ToolEntries ==
    {Entry(ToolCollection, m) : m \in ToolMetas}
    \cup {Entry(ServerCollection, [k \in {"tool"} |-> Str("search")])}

\* The sequences over S of length at most n.
SeqsUpTo(S, n) == UNION {[1..k -> S] : k \in 0..n}

\* The SearchResults of the vectors es, nearest first: the hit at position i
\* has id i and distance i.
HitsOf(es) ==
    [i \in 1..Len(es) |->
        [id |-> i, collection |-> es[i].collection, distance |-> i,
         metadata |-> es[i].metadata]]

\* SearchArgs: what SearchVectors sends to the search tool.
SearchArgs(collectionName, excludeCollections, lim) ==
    [CollectionName |-> collectionName, ExcludeCollections |-> excludeCollections,
     Limit |-> lim]

\* The index service answering a search over the vectors idx (nearest
\* first): CollectionName restricts to one collection, ExcludeCollections
\* leaves collections out, Limit bounds the number of results (default 10).
Search(idx, args) ==
    LET lim == IF args.Limit = 0 THEN DefaultLimit ELSE args.Limit
        scoped == SelectSeq(idx, LAMBDA h :
                      /\ (args.CollectionName # "" => h.collection = args.CollectionName)
                      /\ h.collection \notin args.ExcludeCollections)
    IN  SubSeq(scoped, 1, Min(lim, Len(scoped)))

\* The answer of the search tool for the rows it selected: a JSON array with
\* one object per row, with the keys vector_id, collection_name, metadata and
\* distance.
Respond(rows) ==
    [i \in 1..Len(rows) |->
        [vector_id |-> rows[i].id, collection_name |-> rows[i].collection,
         metadata |-> rows[i].metadata, distance |-> rows[i].distance]]

\* The value json.Unmarshal gives the struct field tagged key from the object
\* o: the value of that key, or the field's zero value when o has no such key.
Field(o, key, zero) == IF key \in DOMAIN o THEN o[key] ELSE zero

\* A client that keeps the first result of the answer only.
UnmarshalFirst(answer) == SubSeq(answer, 1, Min(1, Len(answer)))

\* json.Unmarshal([]byte(textContent), &results): each object of the answer,
\* in the order of the answer, as a SearchResult, whose fields are tagged
\* id, collection, distance and metadata.
Unmarshal(answer) ==
    [i \in 1..Len(answer) |->
        [id |-> Field(answer[i], "id", 0),
         collection |-> Field(answer[i], "collection", ""),
         distance |-> Field(answer[i], "distance", 0),
         metadata |-> Field(answer[i], "metadata", <<>>)]]

\* The ways a SearchVectors call can end: with the service's answer, or with
\* an error of CallTool, an error result of the tool, or an unusable answer.
SearchOutcomes ==
    {"ok", "call failed", "tool returned error", "failed to parse search response"}

\* ------------------------------------------------------- the embedding call

\* The values of OPENAI_API_KEY.
ApiKeys == {"", "sk"}

\* What the provider does with the request: the transport fails, it answers
\* with a status other than 200, with a body that does not decode, with an
\* empty data list, with a first data element whose embedding is empty, or
\* with a first data element that holds a vector.
ProviderAnswers ==
    {"transport error", "status 401", "bad body", "no data", "empty embedding",
     "embedding"}

\* generateEmbedding(ctx, text): the vector and the error it returns, and
\* whether it sent the request to the provider.
generateEmbedding(apiKey, answer) ==
    IF apiKey = ""
    THEN [vector |-> "nil", err |-> "OPENAI_API_KEY environment variable not set",
          sent |-> FALSE]
    ELSE IF answer = "transport error"
    THEN [vector |-> "nil", err |-> "failed to make request", sent |-> TRUE]
    ELSE IF answer = "status 401"
    THEN [vector |-> "nil", err |-> "API returned status 401", sent |-> TRUE]
    ELSE IF answer = "bad body"
    THEN [vector |-> "nil", err |-> "failed to decode response", sent |-> TRUE]
    ELSE IF answer = "no data"
    THEN [vector |-> "nil", err |-> "no embedding returned", sent |-> TRUE]
    ELSE [vector |-> IF answer = "embedding" THEN "vector" ELSE "empty",
          err |-> "nil", sent |-> TRUE]

\* ------------------------------------------- server discovery by embedding

\* A gateway with or without an embeddings client, a catalog, and a call of
\* findServersByEmbedding(ctx, query, limit) about to run.
DiscInit ==
    /\ writing = "none"
    /\ nWrites = 0
    /\ ServiceIdle
    /\ embeddingsClient \in {"nil", "set"}
    /\ catalog \in SUBSET ServerNames
    /\ toolRegistrations = [n \in {} |-> 0]
    /\ hits = <<>>
    /\ req = [name |-> "none", arguments |-> [nil |-> TRUE, prompt |-> <<>>, limit |-> 0]]
    /\ handler = "none"
    /\ hpc = "idle"
    /\ response = [err |-> "nil", list |-> <<>>]
    /\ fn = "findServersByEmbedding"
    /\ limit \in (1..MaxLimit) \cup {DefaultLimit}
    /\ dpc = "start"
    /\ derr = "nil"
    /\ queryVector = "nil"
    /\ results = <<>>
    /\ hitIdx = 1
    /\ servers = <<>>
    /\ tools = <<>>
    /\ kept = <<>>
    /\ dropped = {}
    /\ providerCalls = 0
    /\ searches = <<>>
    /\ encounter = <<>>
    /\ ranked = <<>>

InitDisc == ClientInit /\ timed = FALSE /\ DiscInit /\ SideIdle

\* The function returns err before it has any result.
Fail(err) ==
    /\ dpc' = "done"
    /\ derr' = err
    /\ UNCHANGED <<fn, limit, results, hitIdx, servers, tools, kept, dropped>>

\* A gateway that is taken to have its embeddings client.
NoClientNever == FALSE

\* g.embeddingsClient == nil
NoClient == embeddingsClient = "nil"

\* if g.embeddingsClient == nil { return nil, error }, the first statement of
\* findServersByEmbedding and of findToolsByEmbedding.
CheckClient ==
    /\ dpc = "start"
    /\ IF NoClient
       THEN Fail("embeddings client not initialized")
       ELSE /\ dpc' = "embed"
            /\ UNCHANGED <<fn, limit, derr, results, hitIdx, servers, tools,
                           kept, dropped>>
    /\ UNCHANGED <<queryVector, gatewayVars, callVars, histVars>>
    /\ UNCHANGED <<clientVars, sideVars>>

\* queryVector, err := generateEmbedding(ctx, query), in
\* findServersByEmbedding and in findToolsByEmbedding: a vector or a failure.
GenerateEmbedding ==
    /\ dpc = "embed"
    /\ \E apiKey \in ApiKeys, answer \in ProviderAnswers :
        LET r == generateEmbedding(apiKey, answer)
        IN  /\ providerCalls' = IF r.sent THEN providerCalls + 1 ELSE providerCalls
            /\ IF r.err # "nil"
               THEN Fail(r.err) /\ UNCHANGED queryVector
               ELSE /\ dpc' = "search"
                    /\ queryVector' = r.vector
                    /\ UNCHANGED <<fn, limit, derr, results, hitIdx, servers,
                                   tools, kept, dropped>>
    /\ UNCHANGED <<searches, encounter, ranked, afterClose, gatewayVars, callVars>>
    /\ UNCHANGED <<clientVars, sideVars>>

\* One SearchVectors call with the options args over an index that holds
\* some vectors out of entries: the service's answer goes to results, or the
\* call fails.  The service answers no search whose vector is empty.
SearchWith(args, entries, loop) ==
    /\ searches' = Append(searches, args)
    /\ \E out \in SearchOutcomes, es \in SeqsUpTo(entries, MaxHits) :
        IF out = "ok" /\ queryVector = "vector"
        THEN /\ hits' = HitsOf(es)
             /\ results' = Unmarshal(Respond(Search(hits', args)))
             /\ hitIdx' = 1
             /\ dpc' = loop
             /\ UNCHANGED <<fn, limit, derr, servers, tools, kept, dropped>>
        ELSE /\ es = <<>>
             /\ Fail(IF out = "ok" THEN "tool returned error" ELSE out)
             /\ UNCHANGED hits
    /\ UNCHANGED <<queryVector, providerCalls, encounter, ranked, afterClose,
                   embeddingsClient,
                   catalog, toolRegistrations, writing, nWrites, serviceVars,
                   callVars>>
    /\ UNCHANGED <<clientVars, sideVars>>

\* SearchOptions{CollectionName: "mcp-server-collection", Limit: limit}
ServerSearchOptions(lim) == SearchArgs(ServerCollection, {}, lim)

\* results, err := g.embeddingsClient.SearchVectors(...) in
\* findServersByEmbedding.
SearchVectors ==
    /\ dpc = "search"
    /\ fn = "findServersByEmbedding"
    /\ SearchWith(ServerSearchOptions(limit), ServerEntries, "loop")

\* g.configuration.Find(serverName): whether the catalog resolves the name.
Find(name) == name \in catalog

\* The serverInfo map findServersByEmbedding builds for the server the
\* catalog resolved serverName to, from serverName and server.Spec.
ServerInfo(serverName) ==
    LET Spec_ == ServerOf(serverName)
    IN  InfoMap({"name"}
                    \cup (IF Spec_.Description # <<>> THEN {"description"} ELSE {})
                    \cup (IF Len(Spec_.Secrets) > 0 THEN {"required_secrets"} ELSE {})
                    \cup (IF Len(Spec_.Config) > 0 THEN {"config_schema"} ELSE {})
                    \cup {"long_lived"},
                serverName, Spec_)

\* A loop that stops at the first hit it cannot use.
NextHitBreak(i) == Len(results) + 1

\* continue, and the end of the loop body: on to the hit after hit i.
NextHit(i) == i + 1

\* A loop that puts each new entry in front of the ones it has.
AppendResultFront(list, e) == <<e>> \o list

\* servers = append(servers, serverInfo); tools = append(tools, toolMap)
AppendResult(list, e) == Append(list, e)

\* A hit the loop has no entry for.
NoEntry == [ok |-> FALSE, entry |-> <<>>]

\* A loop that takes the "title" of the metadata when it has no "name".
NameFieldOrTitle(result) ==
    IF "name" \in DOMAIN result.metadata
    THEN [ok |-> TRUE, v |-> result.metadata["name"]]
    ELSE IF "title" \in DOMAIN result.metadata
    THEN [ok |-> TRUE, v |-> result.metadata["title"]]
    ELSE [ok |-> FALSE, v |-> Num("0")]

\* serverNameInterface, ok := result.Metadata["name"]: all the loop reads of
\* the hit.
NameField(result) ==
    IF "name" \in DOMAIN result.metadata
    THEN [ok |-> TRUE, v |-> result.metadata["name"]]
    ELSE [ok |-> FALSE, v |-> Num("0")]

\* The body of the loop over results as a function of the hit: no entry when
\* its metadata has no "name", when the name is not a string, or when the
\* catalog does not resolve it; else the serverInfo of the server.
Reconcile(result) ==
    LET serverNameInterface == NameField(result)
    IN  IF ~serverNameInterface.ok THEN NoEntry
        ELSE IF serverNameInterface.v.t # "string" THEN NoEntry
        ELSE IF ~Find(serverNameInterface.v.v) THEN NoEntry
        ELSE [ok |-> TRUE, entry |-> ServerInfo(serverNameInterface.v.v)]

\* One iteration of the loop over results: the hit is dropped with a warning
\* when its metadata has no "name", when the name is not a string, or when the
\* catalog does not resolve it; else its server is appended to servers.
ReconcileHit ==
    /\ dpc = "loop"
    /\ hitIdx <= Len(results)
    /\ LET r == Reconcile(results[hitIdx])
       IN  IF ~r.ok
           THEN /\ dropped' = dropped \cup {hitIdx}
                /\ hitIdx' = NextHit(hitIdx)
                /\ UNCHANGED <<servers, kept>>
           ELSE /\ servers' = AppendResult(servers, r.entry)
                /\ kept' = Append(kept, hitIdx)
                /\ hitIdx' = hitIdx + 1
                /\ UNCHANGED dropped
    /\ UNCHANGED <<fn, limit, dpc, derr, queryVector, results, tools>>
    /\ UNCHANGED <<gatewayVars, callVars, histVars>>
    /\ UNCHANGED <<clientVars, sideVars>>

\* return servers, nil
FindServersReturn ==
    /\ dpc = "loop"
    /\ hitIdx > Len(results)
    /\ dpc' = "done"
    /\ derr' = "nil"
    /\ UNCHANGED <<fn, limit, queryVector, results, hitIdx, servers, tools, kept,
                   dropped>>
    /\ UNCHANGED <<gatewayVars, callVars, histVars>>
    /\ UNCHANGED <<clientVars, sideVars>>

NextDisc ==
    \/ CheckClient
    \/ GenerateEmbedding
    \/ SearchVectors
    \/ ReconcileHit
    \/ FindServersReturn

SpecDisc == InitDisc /\ [][NextDisc]_vars

\* --------------------------------------------- tool discovery by embedding

\* A ToolRegistration of the registry: the tool "search" has an input schema,
\* the tool "fetch" has none.
Registration(n) ==
    [ServerName |-> "github",
     Tool |-> [Name |-> n,
               Description |-> IF n = "search" THEN "search the web" ELSE "fetch a page",
               InputSchema |-> IF n = "search" THEN "schema of search" ELSE "nil"]]

\* The registries g.toolRegistrations can be.
Registries == {[n \in S |-> Registration(n)] : S \in SUBSET ToolNames}

\* A search of tool discovery that excludes nothing.
ToolSearchOptionsAll == SearchArgs("", {}, ToolSearchLimit)

\* SearchOptions{ExcludeCollections: {"mcp-server-collection"}, Limit: 5}
ToolSearchOptions == SearchArgs("", {ServerCollection}, ToolSearchLimit)

\* results, err := g.embeddingsClient.SearchVectors(...) in findToolsByEmbedding.
FindToolsSearch ==
    /\ dpc = "search"
    /\ fn = "findToolsByEmbedding"
    /\ SearchWith(ToolSearchOptions, ToolEntries, "toolloop")

\* The switch on metadata["tool"]: the "name" of an object when that is a
\* string, the value itself when it is a string, else the empty string.
ExtractToolName(toolNameInterface) ==
    CASE toolNameInterface.t = "map" ->
            IF "name" \in DOMAIN toolNameInterface.m
               /\ toolNameInterface.m["name"].t = "string"
            THEN toolNameInterface.m["name"].v
            ELSE ""
      [] toolNameInterface.t = "string" -> toolNameInterface.v
      [] OTHER -> ""

\* A toolMap that carries an inputSchema whatever the registration has.
ToolMapWithSchema(toolReg) ==
    [k \in {"name", "description", "inputSchema"} |->
        CASE k = "name" -> toolReg.Tool.Name
          [] k = "description" -> toolReg.Tool.Description
          [] k = "inputSchema" -> toolReg.Tool.InputSchema]

\* The toolMap built for a registration, in tools/list format: inputSchema
\* only when the registration has one.
ToolMap(toolReg) ==
    [k \in {"name", "description"}
           \cup (IF toolReg.Tool.InputSchema # "nil" THEN {"inputSchema"} ELSE {}) |->
        CASE k = "name" -> toolReg.Tool.Name
          [] k = "description" -> toolReg.Tool.Description
          [] k = "inputSchema" -> toolReg.Tool.InputSchema]

\* toolNameInterface, ok := result.Metadata["tool"] and the switch on it: the
\* tool name of the hit, all the loop reads of the hit; the empty string when
\* there is none.
HitToolName(result) ==
    IF "tool" \notin DOMAIN result.metadata THEN ""
    ELSE ExtractToolName(result.metadata["tool"])

\* The body of the loop over results in findToolsByEmbedding as a function of
\* the hit: no entry when its metadata has no "tool", when no tool name can
\* be extracted, or when the registry has no such tool; else the toolMap of
\* the registration.
Resolve(result) ==
    LET toolName == HitToolName(result)
    IN  IF toolName = "" THEN NoEntry
        ELSE IF toolName \notin DOMAIN toolRegistrations THEN NoEntry
        ELSE [ok |-> TRUE, entry |-> ToolMap(toolRegistrations[toolName])]

\* A lookup that takes the entry it finds out of the registry.
LookupTaking(registry, toolName) ==
    [n \in DOMAIN registry \ {toolName} |-> registry[n]]

\* toolReg, found := g.toolRegistrations[toolName]: the registry after the
\* lookup, which reads the map and writes nothing to it.
Lookup(registry, toolName) == registry

\* One iteration of the loop over results in findToolsByEmbedding: the hit is
\* dropped with a warning when its metadata has no "tool", when no tool name
\* can be extracted, or when the registry has no such tool; else the
\* registration's tool is appended to tools.
ResolveHit ==
    /\ dpc = "toolloop"
    /\ hitIdx <= Len(results)
    /\ LET result == results[hitIdx]
           r == Resolve(result)
       IN  /\ toolRegistrations' =
                IF HitToolName(result) = "" THEN toolRegistrations
                ELSE Lookup(toolRegistrations, HitToolName(result))
           /\ IF ~r.ok
              THEN /\ dropped' = dropped \cup {hitIdx}
                   /\ hitIdx' = NextHit(hitIdx)
                   /\ UNCHANGED <<tools, kept>>
              ELSE /\ tools' = AppendResult(tools, r.entry)
                   /\ kept' = Append(kept, hitIdx)
                   /\ hitIdx' = hitIdx + 1
                   /\ UNCHANGED dropped
    /\ UNCHANGED <<fn, limit, dpc, derr, queryVector, results, servers>>
    /\ UNCHANGED <<embeddingsClient, catalog, hits, writing, nWrites, serviceVars,
                   callVars, histVars>>
    /\ UNCHANGED <<clientVars, sideVars>>

\* return tools, nil
FindToolsReturn ==
    /\ dpc = "toolloop"
    /\ hitIdx > Len(results)
    /\ dpc' = "done"
    /\ derr' = "nil"
    /\ UNCHANGED <<fn, limit, queryVector, results, hitIdx, servers, tools, kept,
                   dropped>>
    /\ UNCHANGED <<gatewayVars, callVars, histVars>>
    /\ UNCHANGED <<clientVars, sideVars>>

\* ------------------------------------------------------------ the handlers

\* The Arguments of a request: nil, or a map decoded into params.
NilArguments == [nil |-> TRUE, prompt |-> <<>>, limit |-> 0]

Arguments(prompt, lim) == [nil |-> FALSE, prompt |-> prompt, limit |-> lim]

\* What a handler returns: a result that carries list, or an error.
Result(list) == [err |-> "nil", list |-> list]

Error(err) == [err |-> err, list |-> <<>>]

\* A handler that lets every prompt pass.
PromptMissingNever(prompt) == FALSE

\* params.Prompt == ""
PromptMissing(prompt) == prompt = <<>>

\* The resting values of a call that has not entered a discovery function.
NoFunction ==
    /\ fn = "none"
    /\ limit = 0
    /\ dpc = "idle"
    /\ derr = "nil"
    /\ queryVector = "nil"
    /\ results = <<>>
    /\ hitIdx = 1
    /\ servers = <<>>
    /\ tools = <<>>
    /\ kept = <<>>
    /\ dropped = {}
    /\ providerCalls = 0
    /\ searches = <<>>
    /\ encounter = <<>>
    /\ ranked = <<>>
    /\ hits = <<>>
    /\ response = [err |-> "nil", list |-> <<>>]

\* A gateway and one request to it: find-servers with arguments, prompt and
\* limit of the caller's choice over some catalog, or find-tools over some
\* registry.  Prompts of several words only matter to the keyword search.
FindInit ==
    /\ writing = "none"
    /\ nWrites = 0
    /\ ServiceIdle
    /\ embeddingsClient \in {"nil", "set"}
    /\ \/ /\ catalog \in SUBSET ServerNames
          /\ toolRegistrations = [n \in {} |-> 0]
          /\ \E a \in {NilArguments} \cup {Arguments(p, l) : p \in Prompts, l \in Limits} :
                /\ (embeddingsClient = "set" => a.prompt \in {<<>>, <<"g">>})
                /\ req = [name |-> "find-servers", arguments |-> a]
          /\ handler = "none"
          /\ hpc = "called"
       \/ /\ catalog = {}
          /\ toolRegistrations \in Registries
          /\ \E a \in {NilArguments} \cup {Arguments(p, 0) : p \in {<<>>, <<"g">>}} :
                req = [name |-> "find-tools", arguments |-> a]
          /\ handler = "findTools"
          /\ hpc = "handler"
    /\ NoFunction

InitFind == ClientInit /\ timed = FALSE /\ FindInit /\ SideIdle

\* A gateway that always takes the embedding strategy.
FindServersStrategyEmbedding == "embeddingStrategy"

\* findServers picks the embedding strategy if an embedding capability is
\* configured, else the keyword strategy.
FindServersStrategy ==
    IF embeddingsClient # "nil" THEN "embeddingStrategy" ELSE "keywordStrategy"

\* find-servers is called: the strategy is picked.
FindServers ==
    /\ hpc = "called"
    /\ req.name = "find-servers"
    /\ handler' = FindServersStrategy
    /\ hpc' = "handler"
    /\ UNCHANGED <<req, response, gatewayVars, fnVars, histVars>>
    /\ UNCHANGED <<clientVars, sideVars>>

\* configuration.servers: the catalog's servers by name.
ConfigurationServers == [n \in catalog |-> ServerOf(n)]

\* The handler keywordStrategy returns, from the parse of the parameters to
\* the response.
KeywordStrategy ==
    /\ hpc = "handler"
    /\ handler = "keywordStrategy"
    /\ IF req.arguments.nil
       THEN response' = Error("missing arguments") /\ UNCHANGED <<encounter, ranked>>
       ELSE IF PromptMissing(req.arguments.prompt)
       THEN response' = Error("query parameter is required")
            /\ UNCHANGED <<encounter, ranked>>
       ELSE \E order \in IterationOrders(DOMAIN ConfigurationServers) :
            LET lim == NormalizeLimit(req.arguments.limit)
                query == ToLower(TrimSpace(req.arguments.prompt))
                matches == Truncate(
                    SortMatches(CollectMatches(order, ConfigurationServers, query)), lim)
            IN  /\ encounter' = order
                /\ ranked' = matches
                /\ response' = Result([k \in 1..Len(matches) |-> MatchInfo(matches[k])])
    /\ hpc' = "returned"
    /\ UNCHANGED <<req, handler, providerCalls, searches, afterClose, gatewayVars,
                   fnVars>>
    /\ UNCHANGED <<clientVars, sideVars>>

\* A handler that has checked its parameters calls its discovery function.
CallFunction(f, lim) ==
    /\ fn' = f
    /\ limit' = lim
    /\ dpc' = "start"
    /\ hpc' = "waiting"
    /\ UNCHANGED <<response, derr, queryVector, results, hitIdx, servers, tools,
                   kept, dropped>>

\* A handler returns err before it has called anything.
Reject(err) ==
    /\ response' = Error(err)
    /\ hpc' = "returned"
    /\ UNCHANGED fnVars

\* The handler embeddingStrategy returns, up to its call of
\* findServersByEmbedding.
EmbeddingStrategy ==
    /\ hpc = "handler"
    /\ handler = "embeddingStrategy"
    /\ IF req.arguments.nil THEN Reject("missing arguments")
       ELSE IF PromptMissing(req.arguments.prompt) THEN Reject("query parameter is required")
       ELSE CallFunction("findServersByEmbedding", NormalizeLimit(req.arguments.limit))
    /\ UNCHANGED <<req, handler, gatewayVars, histVars>>
    /\ UNCHANGED <<clientVars, sideVars>>

\* The handler of createFindToolsTool, up to its call of findToolsByEmbedding.
FindToolsHandler ==
    /\ hpc = "handler"
    /\ handler = "findTools"
    /\ IF req.arguments.nil THEN Reject("missing arguments")
       ELSE IF PromptMissing(req.arguments.prompt) THEN Reject("prompt parameter is required")
       ELSE CallFunction("findToolsByEmbedding", 0)
    /\ UNCHANGED <<req, handler, gatewayVars, histVars>>
    /\ UNCHANGED <<clientVars, sideVars>>

\* The discovery function has returned to its handler: the handler fails with
\* the wrapped error, or returns the list in its response.
HandlerReturn ==
    /\ hpc = "waiting"
    /\ dpc = "done"
    /\ response' = IF derr # "nil" THEN Error(derr)
                   ELSE Result(IF fn = "findToolsByEmbedding" THEN tools ELSE servers)
    /\ hpc' = "returned"
    /\ UNCHANGED <<req, handler, gatewayVars, fnVars, histVars>>
    /\ UNCHANGED <<clientVars, sideVars>>

NextFind ==
    \/ FindServers
    \/ KeywordStrategy
    \/ EmbeddingStrategy
    \/ FindToolsHandler
    \/ CheckClient
    \/ GenerateEmbedding
    \/ SearchVectors
    \/ ReconcileHit
    \/ FindServersReturn
    \/ FindToolsSearch
    \/ ResolveHit
    \/ FindToolsReturn
    \/ HandlerReturn

SpecFind == InitFind /\ [][NextFind]_vars

\* ------------------------------------------------------- the index service

\* The dimensions a caller passes to NewVectorDBClient: negative, zero and
\* positive ones, those of TestDimensionParameter among them.
Dimensions == ((0 - MaxDimension)..MaxDimension) \cup {384, 768, DefaultDimension}

\* The names of the collections the client works with.
CollectionNames == {ServerCollection, ToolCollection}

\* The cosine distances from the query vector to the vectors that are added.
Distances == 1..2

\* The limits a caller of SearchVectors passes; 0 is left out of the request
\* (omitempty) and the service then uses its default.
SearchLimits == {0, 1, ToolSearchLimit}

\* The options a caller of SearchVectors passes: no restriction, one
\* collection, or all collections but the server collection.
SearchOptions ==
    {SearchArgs("", {}, lim) : lim \in SearchLimits}
    \cup {SearchArgs(ToolCollection, {}, ToolSearchLimit)}
    \cup {SearchArgs("", {ServerCollection}, 1)}

\* The last call of the client was no search.
NoSearch ==
    [searched |-> FALSE,
     args |-> [CollectionName |-> "", ExcludeCollections |-> {}, Limit |-> 0],
     answer |-> <<>>,
     results |-> <<>>]

\* The client can call the service: it has a session and the container runs.
Serving == session = "open" /\ procState = "running"

\* A connect with a dimension of the caller's choice.
ConnectAny == \E dimension \in Dimensions : Connect(dimension)

\* An id column without AUTOINCREMENT: one more than the largest id in the
\* table, so the id of a deleted last row is used again.
CollectionIdReused ==
    IF DOMAIN collections = {} THEN 1
    ELSE 1 + (CHOOSE m \in {collections[n] : n \in DOMAIN collections} :
                \A n \in DOMAIN collections : collections[n] <= m)

\* id INTEGER PRIMARY KEY AUTOINCREMENT: the id of the next row of
\* collections, larger than every id the table ever had.
CollectionId == nextId.collection

\* INSERT INTO collections (name): the table with a row for name c.
Inserted(c) == (c :> CollectionId) @@ collections

\* CreateCollection(ctx, collectionName) on a name that is not in use (name
\* is UNIQUE: the tool fails for a name in use and nothing changes).
CreateCollection ==
    /\ Serving
    /\ nextId.collection <= MaxCollections
    /\ \E c \in CollectionNames \ DOMAIN collections :
        /\ collections' = Inserted(c)
        /\ nextId' = [nextId EXCEPT !.collection = @ + 1]
    /\ found' = NoSearch
    /\ UNCHANGED <<vectorDimension, dimensionArg, vectors, purged>>
    /\ UNCHANGED <<embeddingsClient, catalog, toolRegistrations, hits, writing,
                   nWrites, callVars, fnVars, histVars>>
    /\ UNCHANGED <<clientVars, sideVars>>

\* AddVector(ctx, collectionName, vector, metadata): the collection is
\* created if it does not exist and the vector gets a row of its own.
AddVector ==
    /\ Serving
    /\ nextId.vector <= MaxVectors
    /\ \E c \in CollectionNames, d \in Distances :
        /\ (c \notin DOMAIN collections => nextId.collection <= MaxCollections)
        /\ collections' = IF c \in DOMAIN collections THEN collections ELSE Inserted(c)
        /\ vectors' = vectors \cup
                {[id |-> nextId.vector, collection_id |-> collections'[c], distance |-> d]}
        /\ nextId' = [collection |-> IF c \in DOMAIN collections
                                     THEN nextId.collection ELSE nextId.collection + 1,
                      vector |-> nextId.vector + 1]
    /\ found' = NoSearch
    /\ UNCHANGED <<vectorDimension, dimensionArg, purged>>
    /\ UNCHANGED <<embeddingsClient, catalog, toolRegistrations, hits, writing,
                   nWrites, callVars, fnVars, histVars>>
    /\ UNCHANGED <<clientVars, sideVars>>

\* DeleteCollection(ctx, collectionName) on a collection that exists (the
\* tool fails for another name and nothing changes): its row is deleted, and
\* its vectors are deleted with it (ON DELETE CASCADE) when the connection
\* enforces foreign keys; else their rows stay, with a collection_id that no
\* collection has.
DeleteCollection ==
    /\ Serving
    /\ \E c \in DOMAIN collections, cascade \in BOOLEAN :
        LET rows == {v \in vectors : v.collection_id = collections[c]}
            before == IF c \in DOMAIN purged THEN purged[c] ELSE {}
        IN  /\ collections' = [n \in DOMAIN collections \ {c} |-> collections[n]]
            /\ vectors' = IF cascade THEN vectors \ rows ELSE vectors
            /\ purged' = (c :> (before \cup {v.id : v \in rows})) @@ purged
    /\ found' = NoSearch
    /\ UNCHANGED <<vectorDimension, dimensionArg, nextId>>
    /\ UNCHANGED <<embeddingsClient, catalog, toolRegistrations, hits, writing,
                   nWrites, callVars, fnVars, histVars>>
    /\ UNCHANGED <<clientVars, sideVars>>

\* FROM vectors v JOIN collections c ON v.collection_id = c.id: the rows a
\* search selects from, as the objects of its answer.
Joined ==
    UNION {{[id |-> v.id, collection |-> n, distance |-> v.distance,
             metadata |-> [k \in {} |-> Num("0")]] :
                v \in {w \in vectors : w.collection_id = collections[n]}} :
           n \in DOMAIN collections}

\* ORDER BY distance: the orders the service can put the rows S in (rows at
\* the same distance come in any order).
Nearest(S) ==
    {f \in [1..Cardinality(S) -> S] :
        /\ \A i, j \in 1..Cardinality(S) : i < j => f[i] # f[j]
        /\ \A i, j \in 1..Cardinality(S) : i < j => f[i].distance <= f[j].distance}

\* SearchVectors(ctx, vector, options), called on the client: the options go
\* to the search tool and the results of its answer are returned.
ClientSearchVectors ==
    /\ Serving
    /\ \E args \in SearchOptions, idx \in Nearest(Joined) :
        found' = [searched |-> TRUE, args |-> args,
                  answer |-> Respond(Search(idx, args)),
                  results |-> Unmarshal(Respond(Search(idx, args)))]
    /\ UNCHANGED <<vectorDimension, dimensionArg, collections, vectors, nextId, purged>>
    /\ UNCHANGED <<embeddingsClient, catalog, toolRegistrations, hits, writing,
                   nWrites, callVars, fnVars, histVars>>
    /\ UNCHANGED <<clientVars, sideVars>>

NextIndex ==
    \/ NewVectorDBClient
    \/ CreateCollection
    \/ AddVector
    \/ DeleteCollection
    \/ ClientSearchVectors

\* A client and the index service it starts and then calls.
SpecIndex == Init /\ [][NextIndex]_vars

NextConnect ==
    \/ ConnectAny

\* NewVectorDBClient called with a dimension of the caller's choice.
SpecConnect == Init /\ [][NextConnect]_vars

\* ------------------------------------- the owner of the registry and catalog

\* The maps discovery reads: g.toolRegistrations and the catalog's servers.
SharedMaps == {"registry", "catalog"}

\* The owner of the maps starts to write one of them.  It takes no lock that
\* a discovery call takes: the calls read the maps without any lock.
OwnerBeginWrite ==
    /\ hpc \notin {"returned", "crashed"}
    /\ writing = "none"
    /\ nWrites < MaxWrites
    /\ nWrites' = nWrites + 1
    /\ \E m \in SharedMaps : writing' = m
    /\ UNCHANGED <<embeddingsClient, catalog, toolRegistrations, hits, serviceVars>>
    /\ UNCHANGED <<callVars, fnVars, histVars>>
    /\ UNCHANGED <<clientVars, sideVars>>

\* The owner's write is done: the map has its new content.
OwnerEndWrite ==
    /\ hpc # "crashed"
    /\ writing # "none"
    /\ IF writing = "registry"
       THEN toolRegistrations' \in Registries /\ UNCHANGED catalog
       ELSE catalog' \in SUBSET ServerNames /\ UNCHANGED toolRegistrations
    /\ writing' = "none"
    /\ UNCHANGED <<embeddingsClient, hits, nWrites, serviceVars>>
    /\ UNCHANGED <<callVars, fnVars, histVars>>
    /\ UNCHANGED <<clientVars, sideVars>>

\* The call is about to read the registry: the next hit names a tool, which
\* findToolsByEmbedding looks up in g.toolRegistrations.
ReadsRegistry ==
    /\ dpc = "toolloop" /\ hitIdx <= Len(results)
    /\ "tool" \in DOMAIN results[hitIdx].metadata
    /\ ExtractToolName(results[hitIdx].metadata["tool"]) # ""

\* The call is about to read the catalog: the next hit has a name, which
\* findServersByEmbedding resolves, or keywordStrategy is about to range
\* over configuration.servers.
ReadsCatalog ==
    \/ /\ dpc = "loop" /\ hitIdx <= Len(results)
       /\ "name" \in DOMAIN results[hitIdx].metadata
       /\ results[hitIdx].metadata["name"].t = "string"
    \/ /\ hpc = "handler" /\ handler = "keywordStrategy"
       /\ ~req.arguments.nil /\ ~PromptMissing(req.arguments.prompt)

\* The map the call is about to read is being written: the read and the
\* write are a data race.  Besides reading the map as it was or as it will
\* be (the steps of the call, before or after OwnerEndWrite), the Go runtime
\* can stop the process: "fatal error: concurrent map read and map write".
ConcurrentMapAccess ==
    /\ \/ writing = "registry" /\ ReadsRegistry
       \/ writing = "catalog" /\ ReadsCatalog
    /\ hpc' = "crashed"
    /\ UNCHANGED <<req, handler, response, gatewayVars, fnVars, histVars>>
    /\ UNCHANGED <<clientVars, sideVars>>

NextLive ==
    \/ FindServers
    \/ KeywordStrategy
    \/ EmbeddingStrategy
    \/ FindToolsHandler
    \/ CheckClient
    \/ GenerateEmbedding
    \/ SearchVectors
    \/ ReconcileHit
    \/ FindServersReturn
    \/ FindToolsSearch
    \/ ResolveHit
    \/ FindToolsReturn
    \/ HandlerReturn
    \/ OwnerBeginWrite
    \/ OwnerEndWrite
    \/ ConcurrentMapAccess

\* One request to a gateway whose registry and catalog their owner changes
\* while the request is served.
SpecLive == InitFind /\ [][NextLive]_vars

\* ------------------------------------------------- properties of the client

\* The client is Closed: no open session, no process handle, no container name.
Closed == session # "open" /\ cmd = "nil" /\ containerName = ""

\* The steps in which goroutine p holds the mutex.
InCritical(p) == pc[p] \in {"locked", "inflight", "close_stop", "close_wait"}

\* C1: Close() is idempotent: on a client obtained from a successful connect,
\* Close() called three times never panics, the second and third calls return
\* no error, and every Close() leaves the client Closed.
C1_CloseIdempotent ==
    /\ \A k \in 1..Len(closeRes) : k >= 2 => closeRes[k] = "nil"
    /\ (last.op = "Close" => Closed)

\* C2: at most one request is in flight on the session at any time, and every
\* goroutine that uses the session or tears the client down holds the mutex.
C2_SingleFlight ==
    /\ Cardinality({p \in Procs : pc[p] = "inflight"}) <= 1
    /\ \A p \in Procs : InCritical(p) => mu = p

\* C2 witness: a request is in flight while another goroutine's request waits
\* for the mutex.
C2_Witness ==
    \E p, q \in Procs :
        /\ pc[p] = "inflight" /\ session = "open"
        /\ pc[q] = "lock" /\ op[q] \in SessionOps

\* C3: cancelling the caller's ctx during an in-flight request aborts it: the
\* request can return at once, what it returns is the ctx error, and the mutex
\* is not held once a call has returned, whatever the exit path.
C3_CancelAborts ==
    /\ [][\A p \in Procs :
            (pc[p] = "inflight" /\ cancelled[p] /\ pc'[p] # "inflight")
                => (pc'[p] = "idle" /\ last'.r = "cancelled")]_vars
    /\ [](\A p \in Procs : pc[p] = "inflight" => ENABLED Answer(p))
    /\ [](\A p \in Procs : pc[p] \in {"idle", "lock"} => mu # p)

\* C3 witness: a call whose ctx was cancelled has returned the ctx error and
\* the mutex is free.
C3_Witness == last.r = "cancelled" /\ last.op = "CallTool" /\ mu = 0

\* C4: every call that issues a request returns within its own timeout,
\* measured from call entry: waiting for the mutex counts toward it.
C4_TimeoutFromEntry ==
    \A p \in Procs : op[p] \in SessionOps => elapsed[p] <= Timeout(op[p])

\* C5: a request that ends with a timeout error leaves the client as it was:
\* the session is still held, the process untouched and the mutex free.
C5_TimeoutNotFatal ==
    [][\A p \in Procs :
        (pc[p] = "inflight" /\ pc'[p] = "idle" /\ last'.r = "timeout")
            => /\ session' = session /\ session' # "nil"
               /\ cmd' = cmd /\ procState' = procState
               /\ mu' = 0]_vars

\* C5 witness: after a timeout a later call on the same client has succeeded.
C5_Witness == sawTimeout /\ last.r = "ok" /\ session = "open" /\ mu = 0

\* The teardown steps in the order Close() is to take them.
StepRank(s) ==
    CASE s = "session" -> 1 [] s = "stop" -> 2 [] s = "wait" -> 3 [] s = "release" -> 4

\* The steps of Close call k, in the order they were taken.
StepsOf(k) == SelectSeq(teardown, LAMBDA t : t.call = k)

\* C6: Close() takes its steps in the order session close, stop, wait,
\* release; a failed stop or wait is only logged and does not keep the later
\* steps from running; and the only error a Close() returns is the error the
\* session's Close reported, first in the first call, never the error of the
\* stop or the wait.
C6_TeardownOrder ==
    /\ \A i, j \in 1..Len(teardown) :
        (i < j /\ teardown[i].call = teardown[j].call)
            => StepRank(teardown[i].step) < StepRank(teardown[j].step)
    /\ \A i, j \in 1..Len(teardown) : i < j => teardown[i].call <= teardown[j].call
    /\ \A k \in 1..Len(closeRes) :
        /\ (\E i \in 1..Len(StepsOf(k)) : StepsOf(k)[i].step = "stop")
            => (\E i \in 1..Len(StepsOf(k)) : StepsOf(k)[i].step = "release")
        /\ closeRes[k] \in {"nil", closeErr}
        /\ closeRes[k] # "nil"
            => (Len(StepsOf(1)) >= 1 /\ StepsOf(1)[1].step = "session")

\* C6 witness: a Close() whose stop and wait both failed has run all four
\* steps and returned the session's error.
C6_Witness ==
    /\ Len(closeRes) >= 1 /\ closeRes[1] = "err"
    /\ Len(StepsOf(1)) = 4
    /\ StepsOf(1)[2].logged /\ StepsOf(1)[3].logged

\* C7: while there is no session, ListTools and CallTool send nothing and
\* return the "session not initialized" error.
C7_NotInitialized ==
    /\ [](session = "nil" => \A p \in Procs : pc[p] # "inflight")
    /\ [][\A p \in Procs :
            (session = "nil" /\ pc[p] = "locked" /\ op[p] \in SessionOps
                /\ pc'[p] # pc[p])
                => (pc'[p] = "idle" /\ last'.r = "not_initialized")]_vars

\* C7 witness: a call on the unconnected client has returned that error.
C7_Witness == session = "nil" /\ last.r = "not_initialized" /\ last.op = "CallTool"

\* A Close() on the connected client has returned.
CloseReturned == Len(closeRes) >= 1 /\ session # "nil"

\* C8: once Close() on a connected client has returned, the container has
\* been asked to stop, the process has exited, and IsAlive() returns false.
C8_CloseStopsContainer ==
    CloseReturned =>
        /\ \E i \in 1..Len(teardown) : teardown[i].step = "stop"
        /\ procState = "exited"
        /\ cmd = "nil"
        /\ (last.op = "IsAlive" => last.r = "false")

\* C8 witness: IsAlive() has returned false after Close() returned.
C8_Witness == CloseReturned /\ last.op = "IsAlive" /\ last.r = "false"

\* C9: IsAlive() never sends a request on the session and never has to wait
\* for an in-flight request or a running Close() to finish.
C9_IsAliveNonBlocking ==
    \A p \in Procs : op[p] = "IsAlive" =>
        /\ pc[p] # "inflight"
        /\ ~(pc[p] = "lock" /\ \E q \in Procs :
                mu = q /\ (pc[q] = "inflight" \/ op[q] = "Close"))

\* ---------------------------------------------- properties of discovery

\* The hit cannot be reconciled: no name, a name that is no string, or a name
\* the catalog does not hold.
BadHit(h) ==
    \/ "name" \notin DOMAIN h.metadata
    \/ h.metadata["name"].t # "string"
    \/ h.metadata["name"].v \notin catalog

\* The indices of the hits that made it into servers.
KeptSet == {kept[k] : k \in 1..Len(kept)}

\* C10: in server discovery by embedding a hit without a name, with a name
\* that is no string, or with a name the catalog does not hold is left out of
\* the result; it never fails the call and never keeps the hits after it from
\* being processed.
C10_BadHitsDropped ==
    /\ \A i \in 1..Len(results) :
        (i < hitIdx /\ BadHit(results[i])) => (i \notin KeptSet /\ i \in dropped)
    /\ \A k \in 1..Len(servers) : servers[k].name \in catalog
    /\ (dpc = "done" /\ derr # "nil") => (results = <<>> /\ servers = <<>>)
    /\ (dpc = "done" /\ derr = "nil") =>
        \A i \in 1..Len(results) : ~BadHit(results[i]) => i \in KeptSet

\* C10 witness: the call has returned without error, its first hit was
\* dropped and a later hit is in the result.
C10_Witness ==
    /\ dpc = "done" /\ derr = "nil"
    /\ 1 \in dropped
    /\ \E k \in 1..Len(kept) : kept[k] > 1 /\ servers[k].name = results[kept[k]].metadata["name"].v

\* ------------------------------------- properties of find-servers, find-tools

\* The discovery function has returned without error.
Found(f) == fn = f /\ dpc = "done" /\ derr = "nil"

\* The tool names hit h names: the "tool" of its metadata when that is a
\* non-empty string, or the "name" of that object when that is one.
HitToolNames(h) ==
    IF "tool" \notin DOMAIN h.metadata THEN {}
    ELSE LET v == h.metadata["tool"]
         IN  IF v.t = "string" THEN {v.v} \ {""}
             ELSE IF v.t = "map" /\ "name" \in DOMAIN v.m /\ v.m["name"].t = "string"
             THEN {v.m["name"].v} \ {""}
             ELSE {}

\* A hit tool discovery cannot use: it names no tool, or no registered tool.
BadToolHit(h) == HitToolNames(h) \cap DOMAIN toolRegistrations = {}

\* The hits of results that survive reconciliation, in the order of results.
Survivors == SelectSeq(results, LAMBDA h :
                 IF fn = "findToolsByEmbedding" THEN ~BadToolHit(h) ELSE ~BadHit(h))

\* C11: the result of a discovery call holds exactly the search hits that
\* survive reconciliation, in the order in which the search returned them
\* (nearest first): one entry per surviving hit, no entry moved.
C11_OrderPreserved ==
    /\ \A i, j \in 1..Len(results) : i < j => results[i].distance < results[j].distance
    /\ \A i, j \in 1..Len(kept) : i < j => kept[i] < kept[j]
    /\ Found("findServersByEmbedding") =>
        servers = [k \in 1..Len(Survivors) |->
                      ServerInfo(Survivors[k].metadata["name"].v)]
    /\ Found("findToolsByEmbedding") =>
        /\ Len(tools) = Len(Survivors)
        /\ \A k \in 1..Len(tools) : tools[k]["name"] \in HitToolNames(Survivors[k])
    /\ (hpc = "returned" /\ dpc = "done" /\ derr = "nil") =>
        response.list = IF fn = "findToolsByEmbedding" THEN tools ELSE servers

\* C11 witness: a find-servers response of two different servers whose hits
\* had a dropped hit between them.
C11_Witness ==
    /\ hpc = "returned" /\ Found("findServersByEmbedding")
    /\ kept = <<1, 3>> /\ dropped = {2}
    /\ Len(response.list) = 2 /\ response.list[1] # response.list[2]

\* C12: tool discovery resolves each hit's tool name in the registry: a hit
\* that names no tool or no registered tool is dropped and the call goes on
\* without error; every returned tool carries the name and description of a
\* current registration, and its inputSchema exactly when it has one.
C12_ToolsResolved ==
    fn = "findToolsByEmbedding" =>
        /\ \A i \in 1..Len(results) :
            i < hitIdx => IF BadToolHit(results[i])
                          THEN i \in dropped /\ i \notin KeptSet
                          ELSE i \in KeptSet
        /\ (dpc = "done" /\ results # <<>>) => (derr = "nil" /\ hitIdx = Len(results) + 1)
        /\ \A k \in 1..Len(tools) :
            \E n \in DOMAIN toolRegistrations :
                LET reg == toolRegistrations[n].Tool
                IN  /\ n \in HitToolNames(results[kept[k]])
                    /\ tools[k]["name"] = reg.Name
                    /\ tools[k]["description"] = reg.Description
                    /\ ("inputSchema" \in DOMAIN tools[k]) <=> (reg.InputSchema # "nil")
                    /\ ("inputSchema" \in DOMAIN tools[k])
                        => tools[k]["inputSchema"] = reg.InputSchema

\* C12 witness: a find-tools call has returned a tool with an input schema and
\* a tool without one, and has dropped a hit.
C12_Witness ==
    /\ Found("findToolsByEmbedding") /\ hpc = "returned"
    /\ dropped # {}
    /\ \E j, k \in 1..Len(response.list) :
        /\ "inputSchema" \in DOMAIN response.list[j]
        /\ "inputSchema" \notin DOMAIN response.list[k]

\* The rows the index service selected for the last search of the call.
Selected ==
    IF searches = <<>> THEN <<>> ELSE Search(hits, searches[Len(searches)])

\* C13: every search of tool discovery excludes the server collection and
\* names no collection, every search of server discovery names the server
\* collection and excludes none; no hit of the server collection is among the
\* results of tool discovery, no hit of another collection among those of
\* server discovery.
C13_CollectionsApart ==
    /\ \A i \in 1..Len(searches) :
        /\ fn = "findToolsByEmbedding" =>
            /\ ServerCollection \in searches[i].ExcludeCollections
            /\ searches[i].CollectionName = ""
        /\ fn = "findServersByEmbedding" =>
            /\ searches[i].CollectionName = ServerCollection
            /\ searches[i].ExcludeCollections = {}
        /\ ~(searches[i].CollectionName # "" /\ searches[i].ExcludeCollections # {})
    /\ \A i \in 1..Len(Selected) :
        /\ fn = "findToolsByEmbedding" => Selected[i].collection # ServerCollection
        /\ fn = "findServersByEmbedding" => Selected[i].collection = ServerCollection

\* C13 witness: the index held a vector of the server collection that names a
\* registered tool, and find-tools has returned tools without it.
C13_Witness ==
    /\ Found("findToolsByEmbedding") /\ hpc = "returned"
    /\ response.list # <<>>
    /\ \E i \in 1..Len(hits) :
        hits[i].collection = ServerCollection /\ ~BadToolHit(hits[i])

\* The place of server name n in the order of the catalog iteration.
EncounterPos(n) == CHOOSE i \in 1..Len(encounter) : encounter[i] = n

\* C14: the matches the keyword strategy returns are sorted by non-increasing
\* score, and two matches of equal score are in the order in which the
\* catalog iteration met them.
C14_KeywordSortStable ==
    \A i, j \in 1..Len(ranked) :
        i < j => /\ ranked[i].Score >= ranked[j].Score
                 /\ ranked[i].Score = ranked[j].Score
                     => EncounterPos(ranked[i].Name) < EncounterPos(ranked[j].Name)

\* The weight of one field against the query: exact on equality, contains on
\* containment, none otherwise.
FieldWeight(text, query, exact, contains) ==
    IF ToLower(text) = query THEN {exact}
    ELSE IF Contains(ToLower(text), query) THEN {contains}
    ELSE {}

\* The weights of the fields of server n that match the query.
Weights(n, query) ==
    LET server == ServerOf(n)
        Present(text, w) == IF text = <<>> THEN {} ELSE w
    IN  FieldWeight(NameText(n), query, 100, 50)
        \cup Present(server.Title, FieldWeight(server.Title, query, 97, 47))
        \cup Present(server.Description, FieldWeight(server.Description, query, 95, 45))
        \cup UNION {FieldWeight(server.Tools[i].Name, query, 90, 40)
                    \cup FieldWeight(server.Tools[i].Description, query, 30, 30)
                        : i \in 1..Len(server.Tools)}
        \cup Present(server.Image, FieldWeight(server.Image, query, 20, 20))

\* The largest element of a non-empty set of numbers.
MaxOf(S) == CHOOSE m \in S : \A x \in S : x <= m

\* The query of the request, normalized.
Query == ToLower(TrimSpace(req.arguments.prompt))

\* The keyword strategy has answered a request it did not reject.
KeywordAnswered ==
    /\ hpc = "returned" /\ handler = "keywordStrategy"
    /\ response.err = "nil"

EffectiveLimit ==
    IF req.arguments.limit > 0 THEN req.arguments.limit ELSE DefaultLimit

\* C16: find-servers returns at most L servers, L being the caller's limit
\* when it is positive and 10 otherwise, by the keyword and by the embedding
\* strategy.
C16_AtMostLimit ==
    req.name = "find-servers" =>
        /\ Len(response.list) <= EffectiveLimit
        /\ Len(servers) <= EffectiveLimit
        /\ Len(ranked) <= EffectiveLimit

\* C16 witness: the keyword strategy has returned one server on a limit of 1
\* although two servers of the catalog matched.
C16_Witness ==
    /\ KeywordAnswered
    /\ req.arguments.limit = 1 /\ Len(response.list) = 1
    /\ Cardinality({n \in catalog : Weights(n, Query) # {}}) >= 2

\* The errors a handler reports for missing or empty required arguments.
InputErrors ==
    {"missing arguments", "query parameter is required", "prompt parameter is required"}

\* C17: a call without arguments or with an empty prompt fails with an input
\* error in the handler's first step: no partial result, no request to the
\* embedding provider, no search on the index.
C17_InputErrorsFailFast ==
    (req.name # "none" /\ (req.arguments.nil \/ req.arguments.prompt = <<>>)) =>
        /\ providerCalls = 0 /\ searches = <<>>
        /\ fn = "none" /\ dpc = "idle" /\ encounter = <<>> /\ ranked = <<>>
        /\ hpc \in {"called", "handler", "returned"}
        /\ hpc = "returned" => (response.err \in InputErrors /\ response.list = <<>>)

\* C17 witness: find-tools called with an empty prompt has returned its input
\* error.
C17_Witness ==
    /\ hpc = "returned" /\ req.name = "find-tools"
    /\ ~req.arguments.nil /\ req.arguments.prompt = <<>>
    /\ response.err = "prompt parameter is required"

\* C18: find-tools with a non-empty prompt and no embeddings client fails with
\* the error that the client is not initialized; the embedding provider is
\* not called, the index is not searched and the keyword strategy never runs.
C18_FindToolsNeedsClient ==
    (req.name = "find-tools" /\ ~req.arguments.nil /\ req.arguments.prompt # <<>>
     /\ embeddingsClient = "nil") =>
        /\ providerCalls = 0 /\ searches = <<>>
        /\ handler = "findTools" /\ encounter = <<>> /\ ranked = <<>>
        /\ dpc \in {"idle", "start", "done"}
        /\ dpc = "done" => derr = "embeddings client not initialized"
        /\ hpc = "returned" =>
            response = Error("embeddings client not initialized")

\* C18 witness: such a find-tools call has returned.
C18_Witness ==
    /\ req.name = "find-tools" /\ req.arguments.prompt = <<"g">>
    /\ embeddingsClient = "nil"
    /\ hpc = "returned" /\ response.err = "embeddings client not initialized"

\* The errors that say the embedding path is not available.
CapabilityErrors ==
    {"embeddings client not initialized", "OPENAI_API_KEY environment variable not set"}

\* C19: find-servers runs the embedding strategy exactly when the gateway has
\* an embeddings client and the keyword strategy otherwise; the keyword
\* strategy calls neither the provider nor the index and never fails for want
\* of the embedding capability: a request with a prompt is answered.
C19_StrategySelection ==
    (req.name = "find-servers" /\ handler # "none") =>
        /\ handler = "embeddingStrategy" <=> embeddingsClient # "nil"
        /\ handler = "keywordStrategy" <=> embeddingsClient = "nil"
        /\ handler = "keywordStrategy" =>
            /\ providerCalls = 0 /\ searches = <<>> /\ fn = "none"
            /\ response.err \notin CapabilityErrors
            /\ (hpc = "returned" /\ ~req.arguments.nil /\ req.arguments.prompt # <<>>)
                => response.err = "nil"

\* C19 witness: without an embeddings client find-servers has answered with a
\* server found by keyword.
C19_Witness ==
    /\ req.name = "find-servers" /\ embeddingsClient = "nil"
    /\ hpc = "returned" /\ handler = "keywordStrategy"
    /\ response.err = "nil" /\ response.list # <<>>

\* C20: a failure of the embedding call or of the search fails the discovery
\* call with that cause and without a partial list; the provider and the
\* search are each called at most once per discovery call, and the search is
\* never called unless a query vector was obtained.
C20_UpstreamFailures ==
    /\ providerCalls <= 1 /\ Len(searches) <= 1
    /\ searches # <<>> => (providerCalls = 1 /\ queryVector = "vector")
    /\ (dpc = "done" /\ derr # "nil") => (servers = <<>> /\ tools = <<>>)
    /\ (hpc = "returned" /\ dpc = "done" /\ derr # "nil") => response = Error(derr)

\* ------------------------------------ properties of the gateway's shared maps

\* C21: no step of a discovery call, find-tools or find-servers by keyword or
\* by embedding, successful or failed, changes the tool registry or the
\* server catalog.
C21_DiscoveryReadsOnly ==
    [][catalog' = catalog /\ toolRegistrations' = toolRegistrations]_vars

\* C21 witness: a discovery call has returned after it looked up a hit the
\* registry resolves and a hit it does not resolve.
C21_Witness ==
    /\ hpc = "returned" /\ Found("findToolsByEmbedding")
    /\ kept # <<>>
    /\ \E i \in dropped : HitToolNames(results[i]) # {}

\* A read of a shared map by the call overlaps a write of it by its owner.
Race ==
    \/ writing = "registry" /\ ReadsRegistry
    \/ writing = "catalog" /\ ReadsCatalog

\* C22: a discovery call tolerates its registry and catalog being changed by
\* their owner while it runs: the call completes without failure, every entry
\* it returns is one that resolved (a tool of a registration, a server the
\* catalog held), and no read of the call races against a write of the owner.
C22_ToleratesOwner ==
    /\ hpc # "crashed"
    /\ ~Race
    /\ \A k \in 1..Len(tools) : \E n \in ToolNames : tools[k] = ToolMap(Registration(n))
    /\ \A k \in 1..Len(servers) : servers[k].name \in ServerNames

\* ------------------------------------------ more properties of find-servers

\* What keywordStrategy returns for the request when its range over
\* configuration.servers yields the servers in the given order.
RankedIn(order) ==
    Truncate(SortMatches(CollectMatches(order, ConfigurationServers, Query)),
             NormalizeLimit(req.arguments.limit))

\* C23: the keyword strategy is deterministic: the list it returned for this
\* catalog, prompt and limit is the list every run returns, whatever the
\* order in which the run meets the servers of the catalog.
C23_KeywordDeterministic ==
    KeywordAnswered =>
        \A order \in IterationOrders(catalog) :
            [k \in 1..Len(RankedIn(order)) |-> RankedIn(order)[k].Name]
                = [k \in 1..Len(ranked) |-> ranked[k].Name]

\* The ways another run's hit differs from this run's hit in what the loop
\* does not read: in id and distance, in a further "title" key, or in id,
\* distance and the key the other discovery function reads.
Variations ==
    {[renumber |-> TRUE, extra |-> "none"],
     [renumber |-> FALSE, extra |-> "title"],
     [renumber |-> TRUE, extra |-> "other"]}

\* Hit h varied by c.  A further key holds a name that resolves.
Vary(h, c) ==
    LET key == IF c.extra = "title" THEN "title"
               ELSE IF fn = "findToolsByEmbedding" THEN "name" ELSE "tool"
        value == IF fn = "findToolsByEmbedding" THEN Str("search") ELSE Str("github")
    IN  [id |-> IF c.renumber THEN h.id + MaxHits ELSE h.id,
         collection |-> h.collection,
         distance |-> IF c.renumber THEN 0 ELSE h.distance,
         metadata |-> IF c.extra = "none" \/ key \in DOMAIN h.metadata
                      THEN h.metadata
                      ELSE (key :> value) @@ h.metadata]

\* The lists of hits that differ from results only in what the loop does not
\* read: any of the hits varied, all of them in the same way.
VariantsOfResults ==
    {[i \in 1..Len(results) |->
         IF i \in varied THEN Vary(results[i], c) ELSE results[i]] :
        varied \in SUBSET (1..Len(results)), c \in Variations}

\* The list a run of the discovery function f builds from the hits rs.
RECURSIVE ListOf(_, _)
ListOf(f, rs) ==
    IF rs = <<>> THEN <<>>
    ELSE LET front == ListOf(f, SubSeq(rs, 1, Len(rs) - 1))
             r == IF f = "findToolsByEmbedding" THEN Resolve(rs[Len(rs)])
                  ELSE Reconcile(rs[Len(rs)])
         IN  IF r.ok THEN AppendResult(front, r.entry) ELSE front

\* C24: hit metadata is untrusted: a run whose hits differ from this run's
\* only in id, distance or metadata keys other than the one consumed name
\* field returns the response this run returned, and every entry of the
\* response is built from a catalog server or a registration whose name
\* resolved, with no other metadata value in it.
C24_MetadataUntrusted ==
    (hpc = "returned" /\ dpc = "done" /\ derr = "nil") =>
        /\ \A rs \in VariantsOfResults : ListOf(fn, rs) = response.list
        /\ fn = "findServersByEmbedding" =>
            \A k \in 1..Len(response.list) :
                \E n \in catalog : response.list[k] = ServerInfo(n)
        /\ fn = "findToolsByEmbedding" =>
            \A k \in 1..Len(response.list) :
                \E n \in DOMAIN toolRegistrations :
                    response.list[k] = ToolMap(toolRegistrations[n])

\* C24 witness: find-servers has returned a server although a hit of the
\* search had no name.
C24_Witness ==
    /\ hpc = "returned" /\ Found("findServersByEmbedding")
    /\ response.list # <<>>
    /\ \E i \in dropped : "name" \notin DOMAIN results[i].metadata

\* The fields the output of a match has for catalog server n: name and
\* long_lived always, the others only when the server has them.
FieldsOf(n) ==
    {"name", "long_lived"}
    \cup (IF ServerOf(n).Description # <<>> THEN {"description"} ELSE {})
    \cup (IF ServerOf(n).Secrets # <<>> THEN {"required_secrets"} ELSE {})
    \cup (IF ServerOf(n).Config # <<>> THEN {"config_schema"} ELSE {})

\* C25: the keyword strategy and the embedding strategy format a catalog
\* server identically: every entry of a find-servers response, by either
\* strategy, is what the other strategy emits for that server, and has name,
\* description only if non-empty, required_secrets only if the server has
\* secrets, config_schema only if it has config, and long_lived always.
C25_SameFormat ==
    (hpc = "returned" /\ response.err = "nil" /\ req.name = "find-servers") =>
        \A k \in 1..Len(response.list) :
            LET e == response.list[k]
            IN  /\ e = ServerInfo(e.name)
                /\ e = MatchInfo(ServerMatch(e.name, 0))
                /\ DOMAIN e = FieldsOf(e.name)
                /\ e.long_lived = ServerOf(e.name).LongLived

\* C25 witness: the keyword strategy has returned a server without
\* description and with config, and a server with description and secrets.
C25_Witness ==
    /\ KeywordAnswered
    /\ \E j, k \in 1..Len(response.list) :
        /\ DOMAIN response.list[j] = {"name", "config_schema", "long_lived"}
        /\ DOMAIN response.list[k] =
                {"name", "description", "required_secrets", "long_lived"}

\* ------------------------------------------- properties of the index client

\* C26: NewVectorDBClient normalizes the vector dimension: called with a
\* dimension of zero or less it starts the service with the default 1536,
\* called with a positive dimension it starts the service with that one.
C26_DimensionNormalized ==
    session # "nil" =>
        /\ dimensionArg <= 0 => vectorDimension = 1536
        /\ dimensionArg > 0 => vectorDimension = dimensionArg

\* C26 witness: the client was created with dimension 0 and the service runs
\* with 1536.
C26_Witness ==
    session = "open" /\ dimensionArg = 0 /\ vectorDimension = DefaultDimension

\* The hits in the scope of a search with the options args: the vectors of a
\* collection, of the one named or of all but the excluded ones.
InScope(args) ==
    {h \in Joined :
        /\ (args.CollectionName # "" => h.collection = args.CollectionName)
        /\ h.collection \notin args.ExcludeCollections}

\* C27: SearchVectors returns min(limit, number of vectors in scope) hits,
\* all in scope, each once, in order of ascending distance and none farther
\* than a vector in scope it left out: what the service answered, neither
\* reordered nor cut by the client.  The limit is 10 when none is given.
C27_SearchReturnsNearest ==
    found.searched =>
        LET a == found.answer
            r == found.results
            scope == InScope(found.args)
            lim == IF found.args.Limit = 0 THEN 10 ELSE found.args.Limit
        IN  /\ Len(r) = Min(lim, Cardinality(scope))
            /\ Len(a) = Len(r)
            /\ \A i \in 1..Len(r) :
                    /\ r[i].distance = a[i].distance
                    /\ r[i].metadata = a[i].metadata
                    /\ \E h \in scope : h.id = a[i].vector_id /\ h.distance = r[i].distance
            /\ \A i, j \in 1..Len(r) :
                    i < j => (a[i].vector_id # a[j].vector_id
                              /\ r[i].distance <= r[j].distance)
            /\ \A h \in scope :
                    (\A i \in 1..Len(a) : a[i].vector_id # h.id) =>
                        \A i \in 1..Len(r) : r[i].distance <= h.distance

\* C27 witness: a search with limit 5 in a collection of 3 vectors, not all
\* at the same distance, has returned 3 hits.
C27_Witness ==
    /\ found.searched
    /\ found.args.Limit = 5 /\ found.args.CollectionName = ToolCollection
    /\ Cardinality(InScope(found.args)) = 3
    /\ Len(found.results) = 3
    /\ found.results[1].distance < found.results[3].distance

\* The search had no restriction to or exclusion of collections.
Unrestricted(args) == args.CollectionName = "" /\ args.ExcludeCollections = {}

\* C28 as stated: after a collection has been deleted, an unrestricted search
\* returns no hit whose collection is that collection.
C28_NoHitOfDeletedCollection ==
    (found.searched /\ Unrestricted(found.args)) =>
        \A i \in 1..Len(found.answer) :
            found.answer[i].collection_name \notin DOMAIN purged

\* C28, amended: after a collection has been deleted, an unrestricted search
\* returns none of the vectors that belonged to it when it was deleted; a hit
\* whose collection has that name is a vector added to it after the delete.
C28_DeletedVectorsGone ==
    (found.searched /\ Unrestricted(found.args)) =>
        \A i \in 1..Len(found.answer) : \A c \in DOMAIN purged :
            found.answer[i].vector_id \notin purged[c]

\* C28 witness: a collection with a vector was deleted, the service kept the
\* row of the vector, a vector was added to a collection of the same name,
\* and an unrestricted search has returned the new vector.
C28_Witness ==
    /\ found.searched /\ Unrestricted(found.args)
    /\ \E c \in DOMAIN purged :
        /\ \E v \in vectors : v.id \in purged[c]
        /\ \E i \in 1..Len(found.answer) :
            /\ found.answer[i].collection_name = c
            /\ found.answer[i].vector_id \notin purged[c]

\* C29: a prompt that is empty after normalization, whitespace only, is
\* rejected by the keyword strategy with an input error and no server is
\* returned for it.
C29_BlankPromptRejected ==
    (/\ hpc = "returned" /\ handler = "keywordStrategy"
     /\ ~req.arguments.nil
     /\ TrimSpace(req.arguments.prompt) = <<>>)
        => (response.err # "nil" /\ response.list = <<>>)

\* C30: once Close() has returned, a later ListTools or CallTool (and so
\* every collection, vector or search call, which all go through CallTool)
\* fails without issuing a request on the closed session: no such call is
\* ever in flight on the session.
C30_NoUseAfterClose ==
    \A p \in Procs : afterClose[p] => pc[p] # "inflight"

\* ------------------------------------------- more properties of the client

\* How many times the teardown step s has been executed, over all Close calls.
StepCount(s) ==
    Cardinality({k \in 1..Len(teardown) : teardown[k].step = s})

\* C31: over any number of Close() calls on one client each teardown step is
\* executed at most once: the session is closed at most once, docker stop is
\* issued at most once, and Close() awaits the process at most once.
C31_TeardownOnce ==
    \A s \in {"session", "stop", "wait"} : StepCount(s) <= 1

\* ------------------------------------------------------------------ Wait

\* Close has still to write c.cmd = nil: some Close call is under way and
\* c.cmd is set.
CloseWrites ==
    cmd # "nil" /\ \E p \in Procs : op[p] = "Close" /\ pc[p] # "idle"

\* Close has written c.cmd = nil.
CloseWrote == cmd = "nil" /\ Len(closeRes) >= 1

\* What Wait's read of c.cmd yields.  Wait takes no lock, so nothing orders
\* the read and Close's write c.cmd = nil: after the write the read yields
\* the new value or the one before it.
ReadCmd == IF CloseWrote THEN {"nil", "set"} ELSE {cmd}

\* A goroutine calls Wait() on the client NewVectorDBClient returned, as the
\* long-running example does.
WaitEnter ==
    /\ wpc = "idle"
    /\ session # "nil"
    /\ wpc' = "called"
    /\ UNCHANGED <<waitCalls, clientVars, discVars, secretVars, configVars>>

\* Wait: if c.cmd == nil { return nil }.
WaitCheck ==
    /\ wpc = "called"
    /\ \E c \in ReadCmd : wpc' = IF c = "nil" THEN "returned" ELSE "checked"
    /\ UNCHANGED <<waitCalls, clientVars, discVars, secretVars, configVars>>

\* Wait: return c.cmd.Wait().  c.cmd is read again; on nil the call
\* dereferences a nil *exec.Cmd and panics, else the process wait starts.
WaitCall ==
    /\ wpc = "checked"
    /\ \E c \in ReadCmd :
        IF c = "nil"
        THEN wpc' = "panicked" /\ UNCHANGED waitCalls
        ELSE wpc' = "waiting" /\ waitCalls' = waitCalls + 1
    /\ UNCHANGED <<clientVars, discVars, secretVars, configVars>>

\* c.cmd.Wait() returns to Wait once the process has exited.
WaitReturn ==
    /\ wpc = "waiting"
    /\ procState # "running"
    /\ wpc' = "returned"
    /\ UNCHANGED <<waitCalls, clientVars, discVars, secretVars, configVars>>

\* The long-running example: one goroutine in Wait(), the others closing.
NextWait ==
    \/ NewVectorDBClient
    \/ \E p \in Procs : Enter(p, "Close")
    \/ \E p \in Procs : Lock(p)
    \/ \E p \in Procs : CloseSession(p)
    \/ \E p \in Procs : CloseStop(p)
    \/ \E p \in Procs : CloseWait(p)
    \/ ProcessExit
    \/ WaitEnter
    \/ WaitCheck
    \/ WaitCall
    \/ WaitReturn

SpecWait == Init /\ [][NextWait]_vars

\* Wait is about to read c.cmd while a Close that is under way is about to
\* write it, and nothing orders the two.
WaitRace == wpc \in {"called", "checked"} /\ CloseWrites

\* C32: Wait() running concurrently with Close() never reads c.cmd while
\* Close() is writing it without synchronization, and the process wait is
\* never invoked twice on the same process.
C32_WaitSafe ==
    /\ ~WaitRace
    /\ wpc # "panicked"
    /\ waitCalls + StepCount("wait") <= 1

\* ----------------------------------------------------------- termination

\* The step the call of goroutine p takes next, whichever it is, once it
\* holds the mutex.
CallStep(p) ==
    \/ NotInitialized(p)
    \/ SendRequest(p)
    \/ Answer(p)
    \/ IsAlive(p)
    \/ Session(p)
    \/ CloseSession(p)
    \/ CloseStop(p)
    \/ CloseWait(p)

\* The process a Close() is waiting for exits.
WaitedProcessExit == ProcessExit /\ \E p \in Procs : pc[p] = "close_wait"

\* What the runtime and the environment grant: a goroutine waiting in
\* c.mu.Lock() is not starved (sync.Mutex hands the mutex over to a waiter
\* that has waited long), a goroutine that can take a step takes it, every
\* request answers or times out, docker stop returns, and the process a
\* Close() waits for exits.
Fairness ==
    /\ \A p \in Procs : SF_vars(Lock(p))
    /\ \A p \in Procs : WF_vars(CallStep(p))
    /\ WF_vars(WaitedProcessExit)

\* The client under a fair scheduler.
SpecFair == Init /\ [][Next]_vars /\ Fairness

\* C33: no interleaving of IsAlive, Session, ListTools, CallTool and Close on
\* one client deadlocks: every call eventually returns, a Close() issued
\* while another call is in flight included.
C33_EveryCallReturns ==
    \A p \in Procs : (pc[p] # "idle") ~> (pc[p] = "idle")

\* C33 witness: a Close() has been issued and waits for the mutex while the
\* request of another call is in flight.
C33_Witness ==
    \E p, q \in Procs :
        /\ op[p] = "Close" /\ pc[p] = "lock"
        /\ op[q] \in SessionOps /\ pc[q] = "inflight"

\* ---------------------------------------- more properties of the responses

\* No two entries of the list have the same name.
NoRepeatedName(list) ==
    \A i, j \in 1..Len(list) : list[i].name = list[j].name => i = j

\* C34: a discovery result never lists the same entity twice: no server name
\* occurs more than once in a find-servers response and no tool name more
\* than once in a find-tools response, even when several hits of the index
\* resolve to the same name.
C34_NoDuplicates ==
    (hpc = "returned" /\ response.err = "nil") => NoRepeatedName(response.list)

\* C35: every hit the index service returns reaches the caller of
\* SearchVectors with the id, collection, distance and metadata the service
\* reported for it.
C35_HitsUnchanged ==
    found.searched =>
        /\ Len(found.results) = Len(found.answer)
        /\ \A i \in 1..Len(found.results) :
            /\ found.results[i].id = found.answer[i].vector_id
            /\ found.results[i].collection = found.answer[i].collection_name
            /\ found.results[i].distance = found.answer[i].distance
            /\ found.results[i].metadata = found.answer[i].metadata

\* ------------------------------------------------------ the secrets file

\* The most lines the secrets file has when Remove is called.
MaxLines == 2

\* The most names Remove is called with.
MaxNames == 2

\* The lines the secrets file is made of when Remove is called: secrets, a
\* secret set a second time, a comment, an indented comment, a secret with
\* white space after its value, and a line without "=".
Lines ==
    {<<"a", "=", "x">>, <<"b", "=", "y">>, <<"a", "=", "y">>,
     <<"#", "b", "=", "y">>, <<" ", "#", "b", "=", "y">>,
     <<"b", "=", "y", " ">>, <<"a", "b">>}

\* The secrets files Remove can find: none, or one of some lines.
Files ==
    {[exists |-> FALSE, lines |-> <<>>]}
    \cup {[exists |-> TRUE, lines |-> ls] : ls \in SeqsUpTo(Lines, MaxLines)}

\* The secret names Remove is called with.
SecretNames == {<<"a">>, <<"b">>, <<"#", "b">>}

\* The byte of a character.
Code(c) ==
    CASE c = " " -> 32 [] c = "#" -> 35 [] c = "=" -> 61
      [] c = "a" -> 97 [] c = "b" -> 98 [] c = "x" -> 120 [] c = "y" -> 121

\* s < t for strings: the order of sort.Strings and of sort.Slice by Name.
Less(s, t) ==
    \E i \in 1..(Min(Len(s), Len(t)) + 1) :
        /\ SubSeq(s, 1, i - 1) = SubSeq(t, 1, i - 1)
        /\ \/ i > Len(s) /\ i <= Len(t)
           \/ i <= Len(s) /\ i <= Len(t) /\ Code(s[i]) < Code(t[i])

\* The strings of S in ascending order.
SortStrings(S) ==
    CHOOSE f \in [1..Cardinality(S) -> S] :
        \A i, j \in 1..Cardinality(S) : i < j => Less(f[i], f[j])

\* strings.HasPrefix
HasPrefix(s, prefix) ==
    Len(s) >= Len(prefix) /\ SubSeq(s, 1, Len(prefix)) = prefix

\* strings.Cut(line, "="): the text before and after the first "=".
Cut(line) ==
    IF \E i \in 1..Len(line) : line[i] = "="
    THEN LET i == CHOOSE k \in 1..Len(line) :
                      line[k] = "=" /\ \A j \in 1..(k - 1) : line[j] # "="
         IN  [key |-> SubSeq(line, 1, i - 1),
              value |-> SubSeq(line, i + 1, Len(line)), ok |-> TRUE]
    ELSE [key |-> line, value |-> <<>>, ok |-> FALSE]

\* readAll's loop body: whether the line is skipped: a line that starts with
\* "#", a line that is empty once trimmed, and a trimmed line without "=".
Skipped(line) ==
    \/ HasPrefix(line, <<"#">>)
    \/ TrimSpace(line) = <<>>
    \/ ~Cut(TrimSpace(line)).ok

RECURSIVE ParseLines(_)
\* readAll's loop: the map of the secrets of the lines; a later line of a key
\* replaces an earlier one.
ParseLines(lines) ==
    IF lines = <<>> THEN <<>>
    ELSE LET line == lines[Len(lines)]
             m == ParseLines(SubSeq(lines, 1, Len(lines) - 1))
             kv == Cut(TrimSpace(line))
         IN  IF Skipped(line) THEN m ELSE (kv.key :> kv.value) @@ m

\* readAll: the secrets of the file, or the error of os.ReadFile when there
\* is no file.  The file system serves every read and write of an existing
\* file and the ctx is never cancelled.
readAll(f) ==
    IF f.exists THEN [err |-> "nil", secrets |-> ParseLines(f.lines)]
    ELSE [err |-> "not_exist", secrets |-> <<>>]

\* writeAll: the file is replaced by one line key=value per secret, in the
\* order of the keys.
writeAll(secrets) ==
    LET keys == SortStrings(DOMAIN secrets)
    IN  [exists |-> TRUE,
         lines |-> [i \in 1..Len(keys) |-> keys[i] \o <<"=">> \o secrets[keys[i]]]]

\* The secrets the file holds: what readAll finds in it, none without a file.
Stored(f) == readAll(f).secrets

\* List: the names of the secrets of the file, sorted, none without a file.
List(f) == SortStrings(DOMAIN Stored(f))

\* The map without the key: delete(secrets, name).
Without(secrets, name) == [k \in DOMAIN secrets \ {name} |-> secrets[k]]

\* Delete(ctx, name): the error it returns and the file it leaves.
Delete(f, name) ==
    IF readAll(f).err # "nil" \/ name \notin DOMAIN readAll(f).secrets
    THEN [err |-> "not found", file |-> f]
    ELSE [err |-> "nil", file |-> writeAll(Without(readAll(f).secrets, name))]

\* Set(ctx, name, value): the file it leaves.
Set(f, name, value) == writeAll((name :> value) @@ Stored(f))

\* A secrets file is there, or none, when Remove is called.
SecretsInit == file \in Files /\ RemoveIdle /\ StoreIdle

InitSecrets ==
    ClientInit /\ timed = FALSE /\ DiscIdle /\ WaitIdle /\ SecretsInit /\ ConfigIdle

\* Remove(ctx, names, opts) is called.
RemoveCall ==
    /\ rpc = "idle"
    /\ \E ns \in SeqsUpTo(SecretNames, MaxNames), all \in BOOLEAN :
        /\ names' = ns
        /\ given' = ns
        /\ opts' = [All |-> all]
    /\ fileAtCall' = file
    /\ rpc' = "list"
    /\ UNCHANGED <<file, nameIdx, errs, removeErr, deletions>>
    /\ UNCHANGED <<clientVars, discVars, waitVars, storeVars, configVars>>

\* Remove before its loop: with All and no names the names are those List
\* returns, and when there are none still Remove returns nil.
RemoveList ==
    /\ rpc = "list"
    /\ names' = IF opts.All /\ Len(names) = 0 THEN List(file) ELSE names
    /\ IF opts.All /\ Len(names') = 0
       THEN rpc' = "done" /\ removeErr' = "nil"
       ELSE rpc' = "loop" /\ UNCHANGED removeErr
    /\ UNCHANGED <<file, opts, nameIdx, errs, given, fileAtCall, deletions>>
    /\ UNCHANGED <<clientVars, discVars, waitVars, storeVars, configVars>>

\* Remove's loop goes on to the next name, whether or not Delete failed.
NextName(err) == nameIdx + 1

\* One turn of Remove's loop: fs.Delete(ctx, name), its error kept in errs.
RemoveDelete ==
    /\ rpc = "loop"
    /\ nameIdx <= Len(names)
    /\ LET name == names[nameIdx]
           d == Delete(file, name)
       IN  /\ file' = d.file
           /\ errs' = IF d.err # "nil" THEN Append(errs, name) ELSE errs
           /\ deletions' = Append(deletions,
                                  [name |-> name, err |-> d.err,
                                   before |-> file, after |-> d.file])
           /\ nameIdx' = NextName(d.err)
    /\ UNCHANGED <<rpc, names, opts, removeErr, given, fileAtCall>>
    /\ UNCHANGED <<clientVars, discVars, waitVars, storeVars, configVars>>

\* Remove after its loop: return errors.Join(errs...), nil when errs is empty.
RemoveReturn ==
    /\ rpc = "loop"
    /\ nameIdx > Len(names)
    /\ rpc' = "done"
    /\ removeErr' = IF errs = <<>> THEN "nil" ELSE "joined"
    /\ UNCHANGED <<file, names, opts, nameIdx, errs, given, fileAtCall, deletions>>
    /\ UNCHANGED <<clientVars, discVars, waitVars, storeVars, configVars>>

NextSecrets ==
    \/ RemoveCall
    \/ RemoveList
    \/ RemoveDelete
    \/ RemoveReturn

\* One call of Remove on a secrets file.
SpecSecrets == InitSecrets /\ [][NextSecrets]_vars

\* The secret names Remove was asked to remove: the given ones, or with All
\* and none given those the file held.
Requested ==
    IF opts.All /\ given = <<>> THEN DOMAIN Stored(fileAtCall)
    ELSE {given[i] : i \in 1..Len(given)}

\* C36: Remove processes every requested name, also after a Delete failed,
\* and returns an error iff a Delete failed; each name that was present is
\* gone afterwards, a name that was not present gives a not-found error and
\* leaves the file as it was, all other secrets keep their values, and with
\* All and no names given every stored secret is removed.
C36_RemoveAll ==
    rpc = "done" =>
        /\ Len(deletions) = Len(names)
        /\ \A i \in 1..Len(names) : deletions[i].name = names[i]
        /\ (removeErr # "nil") <=> (\E i \in 1..Len(deletions) : deletions[i].err # "nil")
        /\ \A i \in 1..Len(deletions) :
            LET d == deletions[i]
            IN  IF d.name \in DOMAIN Stored(d.before)
                THEN /\ d.err = "nil"
                     /\ Stored(d.after) = Without(Stored(d.before), d.name)
                ELSE d.err = "not found" /\ d.after = d.before
        /\ \A n \in Requested : n \notin DOMAIN Stored(file)
        /\ \A n \in DOMAIN Stored(fileAtCall) \ Requested :
            n \in DOMAIN Stored(file) /\ Stored(file)[n] = Stored(fileAtCall)[n]
        /\ (opts.All /\ given = <<>>) => Stored(file) = <<>>

\* ------------------------------------------- concurrent Set and Delete

\* The values Set is called with.
SecretValues == {<<"x">>, <<"y">>}

\* The calls a goroutine makes on the file store.
StoreCalls ==
    {[op |-> "Set", name |-> n, value |-> v] : n \in {<<"a">>, <<"b">>}, v \in SecretValues}
    \cup {[op |-> "Delete", name |-> n, value |-> <<>>] : n \in {<<"a">>, <<"b">>}}

\* A goroutine calls Set(ctx, name, value) or Delete(ctx, name).
StoreCall(p) ==
    /\ fsPc[p] = "idle"
    /\ \E c \in StoreCalls : fsOp' = [fsOp EXCEPT ![p] = c]
    /\ fsPc' = [fsPc EXCEPT ![p] = "read"]
    /\ UNCHANGED <<loaded, fsErr, file, removeVars>>
    /\ UNCHANGED <<clientVars, discVars, waitVars, configVars>>

\* Set and Delete, first half: secrets, err := f.readAll(ctx), then the change
\* is made in the local map; Delete returns not-found here.
StoreRead(p) ==
    /\ fsPc[p] = "read"
    /\ LET r == readAll(file)
           c == fsOp[p]
       IN  IF c.op = "Set"
           THEN /\ loaded' = [loaded EXCEPT ![p] = (c.name :> c.value) @@ r.secrets]
                /\ fsPc' = [fsPc EXCEPT ![p] = "write"]
                /\ UNCHANGED fsErr
           ELSE IF r.err # "nil" \/ c.name \notin DOMAIN r.secrets
           THEN /\ fsErr' = [fsErr EXCEPT ![p] = "not found"]
                /\ fsPc' = [fsPc EXCEPT ![p] = "returned"]
                /\ UNCHANGED loaded
           ELSE /\ loaded' = [loaded EXCEPT ![p] = Without(r.secrets, c.name)]
                /\ fsPc' = [fsPc EXCEPT ![p] = "write"]
                /\ UNCHANGED fsErr
    /\ UNCHANGED <<fsOp, file, removeVars>>
    /\ UNCHANGED <<clientVars, discVars, waitVars, configVars>>

\* Set and Delete, second half: return f.writeAll(secrets).
StoreWrite(p) ==
    /\ fsPc[p] = "write"
    /\ file' = writeAll(loaded[p])
    /\ fsErr' = [fsErr EXCEPT ![p] = "nil"]
    /\ fsPc' = [fsPc EXCEPT ![p] = "returned"]
    /\ UNCHANGED <<fsOp, loaded, removeVars>>
    /\ UNCHANGED <<clientVars, discVars, waitVars, configVars>>

NextStore ==
    \/ \E p \in Procs : StoreCall(p)
    \/ \E p \in Procs : StoreRead(p)
    \/ \E p \in Procs : StoreWrite(p)

\* Goroutines that each make one call of Set or Delete on the secrets file.
SpecStore == InitSecrets /\ [][NextStore]_vars

\* The file reflects the call of p: the value set is stored under the name,
\* the name deleted is not stored.
Reflected(p) ==
    IF fsOp[p].op = "Set"
    THEN /\ fsOp[p].name \in DOMAIN Stored(file)
         /\ Stored(file)[fsOp[p].name] = fsOp[p].value
    ELSE fsOp[p].name \notin DOMAIN Stored(file)

\* C37: updates of the file store are not lost: after Set or Delete calls on
\* different names, one of them a Set, have all returned without error, the
\* store reflects each of them.
C37_NoLostUpdate ==
    (/\ \A p \in Procs : fsPc[p] = "returned" /\ fsErr[p] = "nil"
     /\ \A p, q \in Procs : p # q => fsOp[p].name # fsOp[q].name
     /\ \E p \in Procs : fsOp[p].op = "Set")
        => \A p \in Procs : Reflected(p)

\* ------------------------------------------------------------ config-set

\* The texts config-set is called with as server: none, white space, github
\* with white space before it, gitlab, and a name of no server.
ServerTexts == {<<>>, <<" ">>, <<" ", "g", "h">>, <<"g", "l">>, <<"x">>}

\* The values config-set is called with as config.
ConfigValues == {[url |-> "a"], [url |-> "b"], [token |-> "a"]}

\* A config parameter that is missing or null.
NilConfig == [nil |-> TRUE, value |-> [none |-> ""]]

\* req.Params.Arguments: nil, or the server and config parameters.
ConfigArguments ==
    {[nil |-> TRUE, Server |-> <<>>, Config |-> NilConfig]}
    \cup {[nil |-> FALSE, Server |-> t, Config |-> c] :
            t \in ServerTexts,
            c \in {NilConfig} \cup {[nil |-> FALSE, value |-> v] : v \in ConfigValues}}

\* A gateway over some catalog, no server with a config yet, and no
\* discovery request.
ConfigInit ==
    /\ writing = "none"
    /\ nWrites = 0
    /\ ServiceIdle
    /\ embeddingsClient = "nil"
    /\ catalog \in SUBSET ServerNames
    /\ toolRegistrations = [n \in {} |-> 0]
    /\ req = [name |-> "none", arguments |-> NilArguments]
    /\ handler = "none"
    /\ hpc = "idle"
    /\ NoFunction

InitConfig == ClientInit /\ timed = FALSE /\ ConfigInit /\ SideIdle

\* oci.CanonicalizeServerName(serverName), the key of a server in
\* g.configuration.config; its code is outside these files, and it is taken
\* to leave the plain names of the model as they are.
CanonicalizeServerName(serverName) == serverName

\* g.configuration.Find(serverName): the catalog has a server of that name.
ServerExists(serverName) ==
    \E n \in ServerNames : NameText(n) = serverName /\ Find(n)

\* The server the catalog resolves the name to.
ServerNamed(serverName) ==
    ServerOf(CHOOSE n \in ServerNames : NameText(n) = serverName)

\* resolved.Validate(params.Config): the value has the key the schema
\* requires.
Conforms(configItem, value) == configItem.required \in DOMAIN value

\* The loop over serverConfig.Spec.Config: the names of the schema objects
\* the value does not conform to; an item without a name is passed over.
ValidationErrors(server, value) ==
    SelectSeq(server.Config,
              LAMBDA configItem : configItem.name # "" /\ ~Conforms(configItem, value))

\* A handler that stores the value whatever the validation found.
ValidationFailedNever(validationErrors) == FALSE

\* if len(validationErrors) > 0: the call ends with the validation error.
ValidationFailed(validationErrors) == Len(validationErrors) > 0

\* The call ends on an error path: nothing is stored.
Refuse(r) == configRes' = r /\ UNCHANGED <<config, persisted>>

\* configSetHandler, one call: the checks of the parameters, the look-up of
\* the server, the validation against its schema, and only then the store
\* under the canonical name and Persist, whose failure is only logged.
ConfigSet ==
    /\ \E a \in ConfigArguments :
        /\ configReq' = a
        /\ IF a.nil THEN Refuse("missing arguments")
           ELSE IF a.Server = <<>> THEN Refuse("server parameter is required")
           ELSE IF a.Config.nil THEN Refuse("config parameter is required")
           ELSE LET serverName == TrimSpace(a.Server)
                    canonicalServerName == CanonicalizeServerName(serverName)
                IN  IF ~ServerExists(serverName) THEN Refuse("not found")
                    ELSE IF ValidationFailed(ValidationErrors(ServerNamed(serverName),
                                                              a.Config.value))
                    THEN Refuse("validation failed")
                    ELSE /\ config' = (canonicalServerName :> a.Config.value) @@ config
                         /\ \E ok \in BOOLEAN :
                                persisted' = IF ok THEN config' ELSE persisted
                         /\ configRes' = IF canonicalServerName \in DOMAIN config
                                         THEN "updated" ELSE "set"
    /\ UNCHANGED <<clientVars, discVars, waitVars, secretVars>>

NextConfig ==
    \/ ConfigSet

\* A gateway serving config-set calls.
SpecConfig == InitConfig /\ [][NextConfig]_vars

\* The call passes every check: it has arguments, a server and a config, the
\* catalog has the server, and the config has every key a named schema
\* object of the server requires.
PassesChecks(a) ==
    /\ ~a.nil /\ a.Server # <<>> /\ ~a.Config.nil
    /\ \E n \in catalog :
        /\ NameText(n) = TrimSpace(a.Server)
        /\ \A i \in 1..Len(ServerOf(n).Config) :
            ServerOf(n).Config[i].name # "" =>
                ServerOf(n).Config[i].required \in DOMAIN a.Config.value

\* The results of config-set that tell of an error.
ConfigErrors ==
    {"missing arguments", "server parameter is required",
     "config parameter is required", "not found", "validation failed"}

\* C38: a config-set call that ends on an error path leaves the stored
\* config of every server as it was and persists nothing; only a call that
\* passes all checks replaces the config of the target server, and it
\* replaces that of no other server.
C38_ConfigSetFrame ==
    [][IF PassesChecks(configReq')
       THEN /\ configRes' \notin ConfigErrors
            /\ DOMAIN config' = DOMAIN config \cup {TrimSpace(configReq'.Server)}
            /\ config'[TrimSpace(configReq'.Server)] = configReq'.Config.value
            /\ \A k \in DOMAIN config :
                k # TrimSpace(configReq'.Server) => config'[k] = config[k]
            /\ persisted' \in {persisted, config'}
       ELSE /\ configRes' \in ConfigErrors
            /\ config' = config
            /\ persisted' = persisted]_vars

\* C38 witness: a call has ended with a validation error while servers have
\* a config stored and persisted.
C38_Witness ==
    /\ configRes = "validation failed"
    /\ DOMAIN config = {<<"g", "h">>, <<"g", "l">>}
    /\ persisted = config

====
